---- MODULE Spec2Model ----
(***************************************************************************)
(* Model of the CalmTrace backend: the stress inference service            *)
(* (app/services/stress_prediction_service.py) and the /v1/stress router   *)
(* (app/routers/stress.py).                                                *)
(***************************************************************************)
EXTENDS Naturals, Integers, Sequences, FiniteSets, TLC

(***************************************************************************)
(* Python values.  Optional[T] is a set: None is the empty set and a       *)
(* present value x is {x}.                                                 *)
(***************************************************************************)
None == {}
Some(x) == {x}
IsNone(o) == o = {}
Val(o) == CHOOSE x \in o : TRUE

(***************************************************************************)
(* Arbitrary-precision naturals: little-endian sequences of limbs in base  *)
(* 2^15 without high zero limbs (zero is <<>>).  They carry the 53-bit     *)
(* significands of Python floats and their exact products and sums.        *)
(***************************************************************************)
Base == 2^15

Min(a, b) == IF a <= b THEN a ELSE b

RECURSIVE BigNorm(_)
BigNorm(a) ==
    IF a = <<>> THEN <<>>
    ELSE IF a[Len(a)] = 0 THEN BigNorm(SubSeq(a, 1, Len(a) - 1))
    ELSE a

RECURSIVE BigFromInt(_)
BigFromInt(n) ==
    IF n = 0 THEN <<>> ELSE <<n % Base>> \o BigFromInt(n \div Base)

RECURSIVE BigToInt(_)
BigToInt(a) ==
    IF a = <<>> THEN 0 ELSE a[1] + Base * BigToInt(Tail(a))

Limb(a, i) == IF i <= Len(a) THEN a[i] ELSE 0

RECURSIVE BigAddC(_, _, _)
BigAddC(a, b, carry) ==
    IF a = <<>> /\ b = <<>>
    THEN (IF carry = 0 THEN <<>> ELSE <<carry>>)
    ELSE LET s == Limb(a, 1) + Limb(b, 1) + carry
         IN  <<s % Base>> \o
             BigAddC(IF a = <<>> THEN <<>> ELSE Tail(a),
                     IF b = <<>> THEN <<>> ELSE Tail(b), s \div Base)

BigAdd(a, b) == BigAddC(a, b, 0)

\* a - b for a >= b
RECURSIVE BigSubB(_, _, _)
BigSubB(a, b, borrow) ==
    IF a = <<>> THEN <<>>
    ELSE LET d == a[1] - Limb(b, 1) - borrow
         IN  <<IF d < 0 THEN d + Base ELSE d>> \o
             BigSubB(Tail(a), IF b = <<>> THEN <<>> ELSE Tail(b),
                     IF d < 0 THEN 1 ELSE 0)

BigSub(a, b) == BigNorm(BigSubB(a, b, 0))

\* -1, 0 or 1 as a < b, a = b, a > b
RECURSIVE BigCmpAt(_, _, _)
BigCmpAt(a, b, i) ==
    IF i = 0 THEN 0
    ELSE IF a[i] < b[i] THEN -1
    ELSE IF a[i] > b[i] THEN 1
    ELSE BigCmpAt(a, b, i - 1)

BigCmp(a, b) ==
    IF Len(a) < Len(b) THEN -1
    ELSE IF Len(a) > Len(b) THEN 1
    ELSE BigCmpAt(a, b, Len(a))

\* a * c for 0 <= c < Base
RECURSIVE BigMulSmallC(_, _, _)
BigMulSmallC(a, c, carry) ==
    IF a = <<>> THEN (IF carry = 0 THEN <<>> ELSE <<carry>>)
    ELSE LET p == a[1] * c + carry
         IN  <<p % Base>> \o BigMulSmallC(Tail(a), c, p \div Base)

BigMulSmall(a, c) == BigNorm(BigMulSmallC(a, c, 0))

Zeros(n) == [i \in 1..n |-> 0]

RECURSIVE BigMul(_, _)
BigMul(a, b) ==
    IF b = <<>> \/ a = <<>> THEN <<>>
    ELSE BigAdd(BigMulSmall(a, b[1]),
                LET rest == BigMul(a, Tail(b))
                IN  IF rest = <<>> THEN <<>> ELSE <<0>> \o rest)

\* <<quotient, remainder>> of a by c, 0 < c < Base; limbs taken high to low
RECURSIVE BigDivSmallR(_, _, _)
BigDivSmallR(a, c, i) ==
    IF i > Len(a) THEN <<<<>>, 0>>
    ELSE LET hi  == BigDivSmallR(a, c, i + 1)
             cur == hi[2] * Base + a[i]
         IN  <<(<<cur \div c>> \o hi[1]), cur % c>>

BigDivSmall(a, c) ==
    LET qr == BigDivSmallR(a, c, 1) IN <<BigNorm(qr[1]), qr[2]>>

\* a * 2^k
BigShl(a, k) ==
    IF a = <<>> THEN <<>>
    ELSE Zeros(k \div 15) \o BigMulSmall(a, 2^(k % 15))

\* floor(a / 2^k)
BigShr(a, k) ==
    IF k \div 15 >= Len(a) THEN <<>>
    ELSE BigDivSmall(SubSeq(a, (k \div 15) + 1, Len(a)), 2^(k % 15))[1]

RECURSIVE IntBitLen(_)
IntBitLen(n) == IF n = 0 THEN 0 ELSE 1 + IntBitLen(n \div 2)

BigBitLen(a) ==
    IF a = <<>> THEN 0 ELSE 15 * (Len(a) - 1) + IntBitLen(a[Len(a)])

BigOdd(a) == a # <<>> /\ a[1] % 2 = 1

(***************************************************************************)
(* Python floats (IEEE-754 binary64, round to nearest, ties to even) in    *)
(* the range the service computes in: [sign, m, e] stands for              *)
(* sign * m * 2^e with m < 2^53 (or m = 2^53 after a carry).               *)
(***************************************************************************)
FZero == [sign |-> 1, m |-> <<>>, e |-> 0]

\* the float nearest to sign * (n + s) * 2^e, where 0 < s < 1 iff sticky
FRound(sign, n, e, sticky) ==
    LET L == BigBitLen(n) IN
    IF n = <<>> THEN FZero
    ELSE IF L <= 53 THEN [sign |-> sign, m |-> n, e |-> e]
    ELSE LET k    == L - 53
             q    == BigShr(n, k)
             r    == BigSub(n, BigShl(q, k))
             half == BigShl(<<1>>, k - 1)
             c    == BigCmp(r, half)
             up   == c > 0 \/ (c = 0 /\ (sticky \/ BigOdd(q)))
         IN  [sign |-> sign,
              m |-> IF up THEN BigAdd(q, <<1>>) ELSE q,
              e |-> e + k]

FFromInt(n) ==
    FRound(IF n < 0 THEN -1 ELSE 1, BigFromInt(IF n < 0 THEN -n ELSE n), 0, FALSE)

\* the float a decimal literal num/den (num >= 0, 0 < den < Base) reads as
FFromDecimal(num, den) ==
    LET qr == BigDivSmall(BigShl(BigFromInt(num), 75), den)
    IN  FRound(1, qr[1], -75, qr[2] # 0)

FNeg(a) == [a EXCEPT !.sign = -a.sign]

FMul(a, b) ==
    FRound(a.sign * b.sign, BigMul(a.m, b.m), a.e + b.e, FALSE)

FAdd(a, b) ==
    IF a.m = <<>> THEN b
    ELSE IF b.m = <<>> THEN a
    ELSE LET e  == Min(a.e, b.e)
             x  == BigShl(a.m, a.e - e)
             y  == BigShl(b.m, b.e - e)
             c  == BigCmp(x, y)
         IN  IF a.sign = b.sign THEN FRound(a.sign, BigAdd(x, y), e, FALSE)
             ELSE IF c = 0 THEN FZero
             ELSE IF c > 0 THEN FRound(a.sign, BigSub(x, y), e, FALSE)
             ELSE FRound(b.sign, BigSub(y, x), e, FALSE)

FSub(a, b) == FAdd(a, FNeg(b))

\* a > b
FGt(a, b) == LET d == FSub(a, b) IN d.m # <<>> /\ d.sign = 1

\* int(a): truncation toward zero
FInt(a) ==
    a.sign * (IF a.e >= 0 THEN BigToInt(BigShl(a.m, a.e))
              ELSE BigToInt(BigShr(a.m, -a.e)))

\* round(n / d) to the nearest integer, ties to even, as Python's round()
RoundHalfEven(n, d) ==
    LET q == n \div d
        r == n % d
    IN  IF 2 * r > d \/ (2 * r = d /\ q % 2 = 1) THEN q + 1 ELSE q

(***************************************************************************)
(* Bounds of the model.                                                    *)
(***************************************************************************)
\* sensor series (hrv, rr, hr) hold at most MaxSeriesLen samples
MaxSeriesLen == 1
\* a classifier probability is k / 2^ProbBits, a value float32 holds exactly
ProbBits == 4
\* heuristic metrics of predict_stress calls: k / CoarseSteps
CoarseSteps == 2
\* heuristic metrics given to _predict_from_emotiv_metrics: k / FineSteps
FineSteps == 20

(***************************************************************************)
(* Inputs.                                                                 *)
(***************************************************************************)
RECURSIVE SeqsUpTo(_, _)
SeqsUpTo(S, n) ==
    IF n = 0 THEN {<<>>}
    ELSE LET shorter == SeqsUpTo(S, n - 1)
         IN  shorter \cup {Append(q, x) : q \in shorter, x \in S}

\* Optional[List[float]]
SeriesInputs == {None} \cup {Some(q) : q \in SeqsUpTo({60}, MaxSeriesLen)}

\* Optional[Dict[str, List[float]]]: None, {} and a mapping with one channel
EegInputs == {None, Some(<<>>), Some([c \in {"AF3"} |-> <<60>>])}

\* a decimal number num/den is the pair <<num, den>>
Decimals(steps, top) == {<<k, steps>> : k \in 0..top}

\* dicts over the keys stress and relaxation, the two keys the service reads
MetricDicts(values) ==
    {<<>>}
    \cup {[stress |-> v] : v \in values}
    \cup {[relaxation |-> v] : v \in values}
    \cup {[stress |-> v, relaxation |-> w] : v \in values, w \in values}

\* predict_stress may be given any dict: values in and above [0,1], and None
CoarseValues ==
    {None} \cup {Some(d) : d \in Decimals(CoarseSteps, CoarseSteps + 1)}

MetricInputs == {None} \cup {Some(m) : m \in MetricDicts(CoarseValues)}

\* what the scaler and the classifier do in one call
ClassifierBehaviours(den) ==
    {[raises |-> "transform", prediction |-> None],
     [raises |-> "predict", prediction |-> None]}
    \cup {[raises |-> "none", prediction |-> Some(<<den - k, k>>)] : k \in 0..den}

NotCalled == [raises |-> "not_called", prediction |-> None]

ProbDen == 2^ProbBits

(***************************************************************************)
(* StressPredictionService                                                 *)
(***************************************************************************)
LoadOutcomes == {"ok", "missing", "model_raises", "scaler_raises"}

\* what the models directory offers per path: both files present and
\* loadable, a file missing, load_model raising, joblib.load raising
ModelsDirs == [fusion : LoadOutcomes, eeg : LoadOutcomes, ecg : LoadOutcomes]

\* __init__: a model or scaler field is TRUE when it is not None
NewService ==
    [fusion_model |-> FALSE, fusion_scaler |-> FALSE,
     eeg_model |-> FALSE, eeg_scaler |-> FALSE,
     ecg_model |-> FALSE, ecg_scaler |-> FALSE,
     loaded |-> FALSE]

\* one "if model_path.exists() and scaler_path.exists(): load both" block
LoadPath(self, path, outcome) ==
    LET withModel ==
          CASE path = "fusion" -> [self EXCEPT !.fusion_model = TRUE]
            [] path = "eeg"    -> [self EXCEPT !.eeg_model = TRUE]
            [] path = "ecg"    -> [self EXCEPT !.ecg_model = TRUE]
        withBoth ==
          CASE path = "fusion" -> [withModel EXCEPT !.fusion_scaler = TRUE]
            [] path = "eeg"    -> [withModel EXCEPT !.eeg_scaler = TRUE]
            [] path = "ecg"    -> [withModel EXCEPT !.ecg_scaler = TRUE]
    IN  CASE outcome = "ok"            -> [self |-> withBoth, raised |-> FALSE]
          [] outcome = "missing"       -> [self |-> self, raised |-> FALSE]
          [] outcome = "model_raises"  -> [self |-> self, raised |-> TRUE]
          [] outcome = "scaler_raises" -> [self |-> withModel, raised |-> TRUE]

\* load_models: the three blocks in one try; the first exception ends it
load_models(self, dir) ==
    LET s1 == LoadPath(self, "fusion", dir.fusion)
        s2 == IF s1.raised THEN s1 ELSE LoadPath(s1.self, "eeg", dir.eeg)
        s3 == IF s2.raised THEN s2 ELSE LoadPath(s2.self, "ecg", dir.ecg)
    IN  IF s3.raised
        THEN [self |-> s3.self, ret |-> FALSE]
        ELSE [self |-> [s3.self EXCEPT !.loaded = s3.self.fusion_model],
              ret  |-> s3.self.fusion_model]

\* Python truth of "values and len(values) > 0"
NonEmpty(o) == ~IsNone(o) /\ Len(Val(o)) > 0


\* an error dict that reports a level of 0 instead of None
ErrorResultZero(message) ==
    [error |-> message, stress_level |-> Some(0), confidence |-> None]

ErrorResult(message) ==
    [error |-> message, stress_level |-> None, confidence |-> None]

IsErrorResult(r) == "error" \in DOMAIN r

Raise(message) == [raised |-> TRUE, value |-> message]
Return(value) == [raised |-> FALSE, value |-> value]


\* the level taken from the winning class instead of the stress class
ModelResultOfWinner(prediction, den, model_used, data_sources) ==
    LET predicted_class == IF prediction[2] > prediction[1] THEN 1 ELSE 0
    IN  [stress_level   |-> (prediction[predicted_class + 1] * 100) \div den,
         stress_class   |-> IF predicted_class = 1 THEN "stress" ELSE "normal",
         confidence     |-> RoundHalfEven(prediction[predicted_class + 1] * 1000, den),
         model_used     |-> model_used,
         prediction_raw |-> prediction,
         data_sources   |-> data_sources]

\* the result fields every model path derives from prediction[0];
\* confidence is in tenths of a percent (round(confidence, 1))
ModelResult(prediction, den, model_used, data_sources) ==
    LET predicted_class == IF prediction[2] > prediction[1] THEN 1 ELSE 0
    IN  [stress_level   |-> (prediction[2] * 100) \div den,
         stress_class   |-> IF predicted_class = 1 THEN "stress" ELSE "normal",
         confidence     |-> RoundHalfEven(prediction[predicted_class + 1] * 1000, den),
         model_used     |-> model_used,
         prediction_raw |-> prediction,
         data_sources   |-> data_sources]

\* scaler.transform and model.predict of one path
ScaleAndPredict(scaler, clf, den, model_used, data_sources) ==
    IF ~scaler THEN Raise("'NoneType' object has no attribute 'transform'")
    ELSE IF clf.raises = "transform" THEN Raise("transform failed")
    ELSE IF clf.raises = "predict" THEN Raise("predict failed")
    ELSE Return(ModelResult(Val(clf.prediction), den, model_used, data_sources))

\* the hr flag set only for a series that is not empty
_predict_fusion_hr_non_empty(self, eeg_data, hrv_values, rr_values, hr_values, clf, den) ==
    ScaleAndPredict(self.fusion_scaler, clf, den, "fusion",
                    [eeg |-> TRUE, hrv |-> TRUE, rr |-> TRUE,
                     hr |-> NonEmpty(hr_values)])

_predict_fusion(self, eeg_data, hrv_values, rr_values, hr_values, clf, den) ==
    ScaleAndPredict(self.fusion_scaler, clf, den, "fusion",
                    [eeg |-> TRUE, hrv |-> TRUE, rr |-> TRUE,
                     hr |-> ~IsNone(hr_values)])


\* the EEG path reporting itself under the fusion path's name
_predict_eeg_only_as_fusion(self, eeg_data, clf, den) ==
    ScaleAndPredict(self.eeg_scaler, clf, den, "fusion",
                    [eeg |-> TRUE, hrv |-> FALSE, rr |-> FALSE, hr |-> FALSE])

_predict_eeg_only(self, eeg_data, clf, den) ==
    ScaleAndPredict(self.eeg_scaler, clf, den, "eeg_only",
                    [eeg |-> TRUE, hrv |-> FALSE, rr |-> FALSE, hr |-> FALSE])

_predict_ecg_only(self, hrv_values, rr_values, hr_values, clf, den) ==
    ScaleAndPredict(self.ecg_scaler, clf, den, "ecg_only",
                    [eeg |-> FALSE, hrv |-> NonEmpty(hrv_values),
                     rr |-> NonEmpty(rr_values), hr |-> NonEmpty(hr_values)])

\* dict.get(key, 0.5)
MetricGet(emotiv_metrics, key) ==
    IF key \in DOMAIN emotiv_metrics THEN emotiv_metrics[key] ELSE Some(<<5, 10>>)

ToFloat(d) == FFromDecimal(d[1], d[2])

\* (stress * 0.7 + (1 - relaxation) * 0.3) * 100 in float arithmetic
HeuristicLevel(stress, relaxation) ==
    FMul(FAdd(FMul(ToFloat(stress), FFromDecimal(7, 10)),
              FMul(FSub(FFromInt(1), ToFloat(relaxation)), FFromDecimal(3, 10))),
         FFromInt(100))

_predict_from_emotiv_metrics(emotiv_metrics) ==
    LET stress     == MetricGet(emotiv_metrics, "stress")
        relaxation == MetricGet(emotiv_metrics, "relaxation")
    IN  IF IsNone(stress) \/ IsNone(relaxation)
        THEN Raise("unsupported operand type(s): 'NoneType'")
        ELSE LET stress_level == HeuristicLevel(Val(stress), Val(relaxation))
             IN  Return([stress_level   |-> FInt(stress_level),
                         stress_class   |-> IF FGt(stress_level, FFromInt(50))
                                            THEN "stress" ELSE "normal",
                         confidence     |-> 700,
                         model_used     |-> "emotiv_metrics",
                         emotiv_metrics |-> emotiv_metrics,
                         data_sources   |-> [eeg |-> FALSE, hrv |-> FALSE,
                                             rr |-> FALSE, hr |-> FALSE]])


\* heart rate alone counted as usable cardiac data
SelectStrategyHrCounts(self, eeg_data, hrv_values, rr_values, hr_values, emotiv_metrics) ==
    LET has_eeg == ~IsNone(eeg_data) /\ DOMAIN Val(eeg_data) # {}
        has_ecg == NonEmpty(hrv_values) \/ NonEmpty(rr_values) \/ NonEmpty(hr_values)
    IN  IF ~self.loaded THEN "not_loaded"
        ELSE IF has_eeg /\ has_ecg /\ self.fusion_model THEN "fusion"
        ELSE IF has_eeg /\ self.eeg_model THEN "eeg_only"
        ELSE IF has_ecg /\ self.ecg_model THEN "ecg_only"
        ELSE IF ~IsNone(emotiv_metrics) THEN "heuristic"
        ELSE "error"

\* the branch predict_stress takes
SelectStrategy(self, eeg_data, hrv_values, rr_values, hr_values, emotiv_metrics) ==
    LET has_eeg == ~IsNone(eeg_data) /\ DOMAIN Val(eeg_data) # {}
        has_ecg == NonEmpty(hrv_values) \/ NonEmpty(rr_values)
    IN  IF ~self.loaded THEN "not_loaded"
        ELSE IF has_eeg /\ has_ecg /\ self.fusion_model THEN "fusion"
        ELSE IF has_eeg /\ self.eeg_model THEN "eeg_only"
        ELSE IF has_ecg /\ self.ecg_model THEN "ecg_only"
        ELSE IF ~IsNone(emotiv_metrics) THEN "heuristic"
        ELSE "error"

UsesClassifier(strategy) == strategy \in {"fusion", "eeg_only", "ecg_only"}

\* the body of the try block of predict_stress
RunStrategy(self, strategy, eeg_data, hrv_values, rr_values, hr_values, emotiv_metrics, clf, den) ==
    CASE strategy = "fusion" ->
           _predict_fusion(self, eeg_data, hrv_values, rr_values, hr_values, clf, den)
      [] strategy = "eeg_only" -> _predict_eeg_only(self, eeg_data, clf, den)
      [] strategy = "ecg_only" ->
           _predict_ecg_only(self, hrv_values, rr_values, hr_values, clf, den)
      [] strategy = "heuristic" -> _predict_from_emotiv_metrics(Val(emotiv_metrics))
      [] strategy = "error" -> Return(ErrorResult("No valid sensor data provided"))


\* no except clause: the exception leaves predict_stress
Propagate(outcome) ==
    IF outcome.raised
    THEN [result |-> <<>>, exception |-> Some(outcome.value)]
    ELSE [result |-> outcome.value, exception |-> None]

\* except Exception as e: return the error dict
CatchAll(outcome) ==
    IF outcome.raised
    THEN [result |-> ErrorResult(outcome.value), exception |-> None]
    ELSE [result |-> outcome.value, exception |-> None]

\* predict_stress: the returned dict and the exception that escapes, if any
predict_stress(self, eeg_data, hrv_values, rr_values, hr_values, emotiv_metrics, clf, den) ==
    LET strategy == SelectStrategy(self, eeg_data, hrv_values, rr_values,
                                   hr_values, emotiv_metrics)
    IN  IF strategy = "not_loaded"
        THEN [result |-> ErrorResult("Models not loaded"), exception |-> None]
        ELSE CatchAll(RunStrategy(self, strategy, eeg_data, hrv_values, rr_values,
                                  hr_values, emotiv_metrics, clf, den))



(***************************************************************************)
(* Feature extraction.  An entry of a feature vector is either a literal   *)
(* 0.0 the code writes or a number a library computes from some data; the  *)
(* entry then names the computation and the data: <<channel>> for a number *)
(* taken from eeg_data[channel], the series itself for a cardiac series.   *)
(***************************************************************************)
EEG_FEATURE_DIM == 513
ECG_FEATURE_DIM == 72

EEG_CHANNELS == <<"AF3", "F7", "F3", "FC5", "T7", "P7", "O1", "O2",
                  "P8", "T8", "FC6", "F4", "F8", "AF4">>

EEG_BANDS == <<"delta", "theta", "alpha", "beta", "gamma">>

\* the number fn computes from x
Feature(fn, x) == [fn |-> fn, x |-> x]

\* the literal 0.0
Zero == Feature("0.0", <<>>)

\* [0.0] * n
ZeroFeatures(n) == [i \in 1..n |-> Zero]

\* features[:dim], then np.pad with zeros up to dim
TruncateOrPad(features, dim) ==
    IF Len(features) >= dim
    THEN SubSeq(features, 1, dim)
    ELSE features \o ZeroFeatures(dim - Len(features))

\* while len(features) % 37 != 0: features.append(0.0)
PadToBlock(features) ==
    features \o ZeroFeatures((37 - (Len(features) % 37)) % 37)

\* for each of the arrays cA4, cD4 .. cD1 of pywt.wavedec(signal, 'db4',
\* level=4): mean(abs(coeff)), std(coeff), sum(coeff ** 2)
WaveletFeatures(channel) ==
    LET fns == <<"cA4 mean abs", "cA4 std", "cA4 energy",
                 "cD4 mean abs", "cD4 std", "cD4 energy",
                 "cD3 mean abs", "cD3 std", "cD3 energy",
                 "cD2 mean abs", "cD2 std", "cD2 energy",
                 "cD1 mean abs", "cD1 std", "cD1 energy">>
    IN  [i \in 1..Len(fns) |-> Feature(fns[i], <<channel>>)]

\* one pass of the loop over EEG_CHANNELS: features after the channel's turn
ChannelFeatures(features, eeg_data, channel, sampling_rate, wavelet_raises) ==
    IF channel \notin DOMAIN eeg_data \/ Len(eeg_data[channel]) = 0
    THEN features \o ZeroFeatures(37)
    ELSE LET signal_data == eeg_data[channel]
             time   == <<Feature("mean", <<channel>>), Feature("std", <<channel>>),
                         Feature("min", <<channel>>), Feature("max", <<channel>>),
                         Feature("median", <<channel>>)>>
             stat   == <<IF Len(signal_data) > 2
                         THEN Feature("skew", <<channel>>) ELSE Zero,
                         IF Len(signal_data) > 3
                         THEN Feature("kurtosis", <<channel>>) ELSE Zero>>
             bands  == IF Len(signal_data) >= sampling_rate
                       THEN [b \in 1..Len(EEG_BANDS) |->
                               Feature(EEG_BANDS[b], <<channel>>)]
                       ELSE ZeroFeatures(5)
             before == features \o time \o stat \o bands
         IN  IF channel \in wavelet_raises
             THEN \* except: the fifteen zeros, and no padding of the block
                  before \o ZeroFeatures(15)
             ELSE PadToBlock(before \o WaveletFeatures(channel))

\* the list features when the loop has gone through the first n channels
RECURSIVE EegFeatureList(_, _, _, _)
EegFeatureList(eeg_data, sampling_rate, wavelet_raises, n) ==
    IF n = 0 THEN <<>>
    ELSE ChannelFeatures(EegFeatureList(eeg_data, sampling_rate, wavelet_raises, n - 1),
                         eeg_data, EEG_CHANNELS[n], sampling_rate, wavelet_raises)

\* the list returned as it is, whatever its length
extract_eeg_features_unsized(eeg_data, sampling_rate, wavelet_raises) ==
    EegFeatureList(eeg_data, sampling_rate, wavelet_raises, Len(EEG_CHANNELS))

extract_eeg_features(eeg_data, sampling_rate, wavelet_raises) ==
    TruncateOrPad(EegFeatureList(eeg_data, sampling_rate, wavelet_raises,
                                 Len(EEG_CHANNELS)),
                  EEG_FEATURE_DIM)


\* a block that takes the differences of a series of one sample as well
SeriesBlockDiffOfOne(name, values) ==
    IF NonEmpty(values)
    THEN LET x == Val(values)
         IN  <<Feature("mean", x), Feature("std", x), Feature("min", x),
               Feature("max", x), Feature("median", x), Feature("percentile 25", x),
               Feature("percentile 75", x), Feature("ptp", x)>>
             \o <<Feature("rmssd", x), Feature("mean abs diff", x),
                  Feature("std diff", x),
                  Feature(IF name = "hrv" THEN "pnn50" ELSE "var diff", x)>>
             \o ZeroFeatures(12)
    ELSE ZeroFeatures(24)

\* the 24 features of one cardiac series: 8 statistics, 4 numbers taken from
\* np.diff of the series (the last is pNN50 for HRV and the variance of the
\* differences for RR and HR) and 12 zeros
SeriesBlock(name, values) ==
    IF NonEmpty(values)
    THEN LET x == Val(values)
         IN  <<Feature("mean", x), Feature("std", x), Feature("min", x),
               Feature("max", x), Feature("median", x), Feature("percentile 25", x),
               Feature("percentile 75", x), Feature("ptp", x)>>
             \o (IF Len(x) > 1
                 THEN <<Feature("rmssd", x), Feature("mean abs diff", x),
                        Feature("std diff", x),
                        Feature(IF name = "hrv" THEN "pnn50" ELSE "var diff", x)>>
                 ELSE ZeroFeatures(4))
             \o ZeroFeatures(12)
    ELSE ZeroFeatures(24)

\* the HR block taken from the RR series
extract_ecg_features_hr_from_rr(hrv_values, rr_values, hr_values) ==
    TruncateOrPad(SeriesBlock("hrv", hrv_values) \o SeriesBlock("rr", rr_values)
                     \o SeriesBlock("hr", rr_values),
                  ECG_FEATURE_DIM)

extract_ecg_features(hrv_values, rr_values, hr_values) ==
    TruncateOrPad(SeriesBlock("hrv", hrv_values) \o SeriesBlock("rr", rr_values)
                     \o SeriesBlock("hr", hr_values),
                  ECG_FEATURE_DIM)

(***************************************************************************)
(* get_feature_contributions.  Samples are integers, so a variance is the  *)
(* exact fraction VarNum(x) / Len(x)^2; the weights are kept as integers   *)
(* over one common denominator, which the percentages do not depend on.    *)
(***************************************************************************)
RECURSIVE SumOf(_)
SumOf(x) == IF x = <<>> THEN 0 ELSE Head(x) + SumOf(Tail(x))

RECURSIVE SumSqOf(_)
SumSqOf(x) == IF x = <<>> THEN 0 ELSE Head(x) * Head(x) + SumSqOf(Tail(x))

\* np.var(x) * len(x)^2
VarNum(x) == Len(x) * SumSqOf(x) - SumOf(x) * SumOf(x)

RECURSIVE Gcd(_, _)
Gcd(a, b) == IF b = 0 THEN a ELSE Gcd(b, a % b)

Lcm(a, b) == (a \div Gcd(a, b)) * b

\* a series of one sample counted as well
HasSeriesOfOne(values) == NonEmpty(values)

\* has_hrv, has_rr, has_hr: more than one sample
HasSeries(values) == NonEmpty(values) /\ Len(Val(values)) > 1

\* has_eeg: a mapping with at least one channel
HasEeg(eeg_data) == ~IsNone(eeg_data) /\ DOMAIN Val(eeg_data) # {}

\* a weight that counts the eeg weight twice in the total
ContributionsEegTwice(eeg_data, hrv_values, rr_values, hr_values) ==
    LET sq(v) == IF HasSeries(v) THEN Len(Val(v)) * Len(Val(v)) ELSE 1
        L     == Lcm(sq(hrv_values), Lcm(sq(rr_values), sq(hr_values)))
        var(v) == VarNum(Val(v)) * (L \div sq(v))
        keys  == (IF HasSeries(hrv_values) THEN {"hrv"} ELSE {})
                 \cup (IF HasSeries(rr_values) THEN {"rr"} ELSE {})
                 \cup (IF HasSeries(hr_values) THEN {"hr"} ELSE {})
                 \cup (IF HasEeg(eeg_data) THEN {"eeg"} ELSE {})
        weights == [key \in keys |->
                      CASE key = "hrv" -> 100 * L + var(hrv_values)
                        [] key = "rr"  -> 80 * L + 10 * var(rr_values)
                        [] key = "hr"  -> 50 * L + 2 * var(hr_values)
                        [] key = "eeg" -> 150 * L]
        w(key) == IF key \in keys THEN weights[key] ELSE 0
        total_weight == w("hrv") + w("rr") + w("hr") + 2 * w("eeg")
    IN  [key \in keys |-> RoundHalfEven(1000 * weights[key], total_weight)]

\* contributions: the percentage of each weight in the total, in tenths of a
\* percent.  The weights are 1 + var/100, 0.8 + var/10, 0.5 + var/50 and 1.5,
\* here all multiplied by 100 * L, L the common multiple of the len(x)^2.
Contributions(eeg_data, hrv_values, rr_values, hr_values) ==
    LET sq(v) == IF HasSeries(v) THEN Len(Val(v)) * Len(Val(v)) ELSE 1
        L     == Lcm(sq(hrv_values), Lcm(sq(rr_values), sq(hr_values)))
        var(v) == VarNum(Val(v)) * (L \div sq(v))
        keys  == (IF HasSeries(hrv_values) THEN {"hrv"} ELSE {})
                 \cup (IF HasSeries(rr_values) THEN {"rr"} ELSE {})
                 \cup (IF HasSeries(hr_values) THEN {"hr"} ELSE {})
                 \cup (IF HasEeg(eeg_data) THEN {"eeg"} ELSE {})
        weights == [key \in keys |->
                      CASE key = "hrv" -> 100 * L + var(hrv_values)
                        [] key = "rr"  -> 80 * L + 10 * var(rr_values)
                        [] key = "hr"  -> 50 * L + 2 * var(hr_values)
                        [] key = "eeg" -> 150 * L]
        w(key) == IF key \in keys THEN weights[key] ELSE 0
        total_weight == w("hrv") + w("rr") + w("hr") + w("eeg")
    IN  \* total_weight > 0 exactly when some key has a weight
        [key \in keys |-> RoundHalfEven(1000 * weights[key], total_weight)]

\* descriptions: one for hrv, rr and eeg, by the mean of the series
Descriptions(eeg_data, hrv_values, rr_values) ==
    LET keys == (IF HasSeries(hrv_values) THEN {"hrv"} ELSE {})
                \cup (IF HasSeries(rr_values) THEN {"rr"} ELSE {})
                \cup (IF HasEeg(eeg_data) THEN {"eeg"} ELSE {})
        hrv == Val(hrv_values)
        rr  == Val(rr_values)
    IN  [key \in keys |->
           CASE key = "hrv" ->
                  IF SumOf(hrv) < 30 * Len(hrv)
                  THEN "Low variability detected, suggesting sympathetic nervous system activation."
                  ELSE IF SumOf(hrv) > 60 * Len(hrv)
                  THEN "Good variability indicating parasympathetic dominance."
                  ELSE "Moderate heart rate variability observed."
             [] key = "rr" ->
                  IF SumOf(rr) > 18 * Len(rr)
                  THEN "Elevated breathing rate observed."
                  ELSE IF SumOf(rr) < 12 * Len(rr)
                  THEN "Slow, relaxed breathing pattern."
                  ELSE "Normal respiratory rate."
             [] key = "eeg" -> "EEG patterns analyzed for stress markers."]

get_feature_contributions(self, eeg_data, hrv_values, rr_values, hr_values) ==
    [contributions |-> Contributions(eeg_data, hrv_values, rr_values, hr_values),
     descriptions |-> Descriptions(eeg_data, hrv_values, rr_values)]

(***************************************************************************)
(* The process: the global service instance, one call of the service or    *)
(* one request to the router, and what it returned.  The arguments of the  *)
(* call (or the body of the request) are given from the start; pc tells    *)
(* whether it has been served.                                             *)
(***************************************************************************)
VARIABLES
    models_dir,          \* what load_models finds on disk
    prediction_service,  \* _prediction_service: None or the service
    pc,                  \* "waiting" until the call or request is served
    request,             \* body of the POST /predict request, or None
    call,                \* the service call and its arguments
    classifier,          \* what scaler and classifier did in that call
    strategy,            \* the branch predict_stress took in that call
    result,              \* the dict the call returned
    exception,           \* the exception that escaped the call, or None
    response,            \* the router's response to the request
    stress_predictions,  \* db.stress_predictions, in insertion order
    status,              \* the last response of GET /status, or None
    loads,               \* how many times load_models has been called
    pywt,                \* the channels whose wavelet transform raises
    now,                 \* the clock (UTC), in half days since the process started
    streaks,             \* db.streaks: the user's document, or None
    daily_goals,         \* db.daily_goals: the user's documents, oldest first
    notification_logs,   \* db.notification_logs: the user's records, oldest first
    notification_preferences,  \* db.notification_preferences: the user's document, or None
    devices,             \* db.devices: how many active devices the user has
    procs                \* the request handlers in flight: their local variables

vars == <<models_dir, prediction_service, pc, request, call, classifier, strategy,
          result, exception, response, stress_predictions, status, loads, pywt,
          now, streaks, daily_goals, notification_logs, notification_preferences,
          devices, procs>>

Call(fn, eeg_data, hrv_values, rr_values, hr_values, emotiv_metrics) ==
    [fn |-> fn, eeg_data |-> eeg_data, hrv_values |-> hrv_values,
     rr_values |-> rr_values, hr_values |-> hr_values,
     emotiv_metrics |-> emotiv_metrics]

\* the variables of the streak, goals and notification services
otherServices == <<now, streaks, daily_goals, notification_logs,
                   notification_preferences, devices, procs>>

\* no request of those services has been made
OtherServicesIdle ==
    /\ now = 0
    /\ streaks = None
    /\ daily_goals = <<>>
    /\ notification_logs = <<>>
    /\ notification_preferences = None
    /\ devices = 0
    /\ procs = <<>>

NoCall == Call("none", None, None, None, None, None)

\* everything but the inputs, as it is when the process starts
InitProcess ==
    /\ models_dir \in ModelsDirs
    /\ prediction_service = None
    /\ pc = "waiting"
    /\ classifier = NotCalled
    /\ strategy = "none"
    /\ result = <<>>
    /\ exception = None
    /\ response = None
    /\ stress_predictions = <<>>
    /\ status = None
    /\ loads = 0
    /\ OtherServicesIdle
    /\ pywt = {}

\* a caller is about to call service.predict_stress with some arguments
Init ==
    /\ InitProcess
    /\ request = None
    /\ call \in {Call("predict_stress", e, hrv, rr, hr, m) :
                   e \in EegInputs, hrv \in SeriesInputs, rr \in SeriesInputs,
                   hr \in SeriesInputs, m \in MetricInputs}

\* get_prediction_service: the instance, created and loaded on first use
get_prediction_service ==
    IF IsNone(prediction_service)
    THEN load_models(NewService, models_dir).self
    ELSE Val(prediction_service)

\* get_prediction_service calls load_models when there is no instance yet
CountLoad == loads' = IF IsNone(prediction_service) THEN loads + 1 ELSE loads

\* what a call of get_prediction_service leaves in the two globals
UseService ==
    /\ prediction_service' = Some(get_prediction_service)
    /\ CountLoad

\* the first get_prediction_service() of the process, by any caller
GetPredictionService ==
    /\ IsNone(prediction_service)
    /\ UseService
    /\ UNCHANGED <<otherServices, pywt, models_dir, pc, request, call, classifier, strategy, result,
                   exception, response, stress_predictions, status>>

\* the scaler and classifier act only when a model path is taken
BehavioursFor(self, c, den) ==
    IF UsesClassifier(SelectStrategy(self, c.eeg_data, c.hrv_values, c.rr_values,
                                     c.hr_values, c.emotiv_metrics))
    THEN ClassifierBehaviours(den)
    ELSE {NotCalled}

\* a field of self with the wrong value after a call
SelfAfterCallUnloaded(self) == [self EXCEPT !.loaded = FALSE]

\* the fields of self after predict_stress or get_feature_contributions:
\* neither method nor the helpers they call assign to a field of self
SelfAfterCall(self) == self

\* one call of self.predict_stress with the arguments c, under behaviour clf
CallPredictStress(self, c, clf, den) ==
    LET out == predict_stress(self, c.eeg_data, c.hrv_values, c.rr_values,
                              c.hr_values, c.emotiv_metrics, clf, den)
    IN  /\ prediction_service' = Some(SelfAfterCall(self))
        /\ classifier' = clf
        /\ strategy' = SelectStrategy(self, c.eeg_data, c.hrv_values, c.rr_values,
                                      c.hr_values, c.emotiv_metrics)
        /\ result' = out.result
        /\ exception' = out.exception

\* StressPredictionService.predict_stress called on the global instance
PredictStress ==
    /\ pc = "waiting"
    /\ call.fn = "predict_stress"
    /\ ~IsNone(prediction_service)
    /\ \E clf \in BehavioursFor(Val(prediction_service), call, ProbDen) :
          CallPredictStress(Val(prediction_service), call, clf, ProbDen)
    /\ pc' = "done"
    /\ UNCHANGED <<otherServices, pywt, models_dir, request, call, response, stress_predictions,
                   status, loads>>

Next == GetPredictionService \/ PredictStress

Spec == Init /\ [][Next]_vars

(***************************************************************************)
(* _predict_from_emotiv_metrics on its own, over a finer grid of metrics.  *)
(***************************************************************************)
\* metric values in [0,1]
FineValues == {Some(d) : d \in Decimals(FineSteps, FineSteps)}

InitHeuristic ==
    /\ models_dir = [fusion |-> "ok", eeg |-> "ok", ecg |-> "ok"]
    /\ prediction_service = None
    /\ pc = "waiting"
    /\ classifier = NotCalled
    /\ strategy = "none"
    /\ result = <<>>
    /\ exception = None
    /\ response = None
    /\ stress_predictions = <<>>
    /\ status = None
    /\ loads = 0
    /\ OtherServicesIdle
    /\ pywt = {}
    /\ request = None
    /\ call \in {Call("_predict_from_emotiv_metrics", None, None, None, None, Some(m)) :
                   m \in MetricDicts(FineValues)}

PredictFromEmotivMetrics ==
    /\ pc = "waiting"
    /\ call.fn = "_predict_from_emotiv_metrics"
    /\ LET out == _predict_from_emotiv_metrics(Val(call.emotiv_metrics))
       IN  /\ result' = IF out.raised THEN <<>> ELSE out.value
           /\ exception' = IF out.raised THEN Some(out.value) ELSE None
    /\ strategy' = "heuristic"
    /\ pc' = "done"
    /\ UNCHANGED <<otherServices, pywt, models_dir, prediction_service, request, call, classifier,
                   response, stress_predictions, status, loads>>

NextHeuristic == PredictFromEmotivMetrics

SpecHeuristic == InitHeuristic /\ [][NextHeuristic]_vars

(***************************************************************************)
(* app/routers/stress.py: POST /v1/stress/predict                          *)
(***************************************************************************)
\* EmotivMetrics: every field is Optional and validated to lie in [0,1]
EmotivMetricsBodies ==
    LET values == {None} \cup {Some(d) : d \in Decimals(CoarseSteps, CoarseSteps)}
    IN  [stress : values, relaxation : values]

\* StressPredictionRequest
RequestBodies ==
    [eeg_data : {None} \cup
                {Some([channels |-> Val(e), sampling_rate |-> 128]) :
                   e \in EegInputs \ {None}},
     health_data : {None} \cup
                   {Some(h) : h \in [hrv_values : SeriesInputs,
                                     rr_values : SeriesInputs,
                                     hr_values : SeriesInputs]},
     emotiv_metrics : {None} \cup {Some(m) : m \in EmotivMetricsBodies}]

InitRouter ==
    /\ InitProcess
    /\ call = NoCall
    /\ request \in {Some(b) : b \in RequestBodies}

get_stress_label(level) ==
    IF level <= 40 THEN "Low Stress"
    ELSE IF level <= 70 THEN "Medium Stress"
    ELSE "High Stress"

\* the arguments the handler makes of the request body
EndpointCall(body) ==
    Call("predict_stress",
         IF IsNone(body.eeg_data) THEN None ELSE Some(Val(body.eeg_data).channels),
         IF IsNone(body.health_data) THEN None ELSE Val(body.health_data).hrv_values,
         IF IsNone(body.health_data) THEN None ELSE Val(body.health_data).rr_values,
         IF IsNone(body.health_data) THEN None ELSE Val(body.health_data).hr_values,
         \* model_dump() keeps every field of the model, unset ones as None
         IF IsNone(body.emotiv_metrics) THEN None ELSE Some(Val(body.emotiv_metrics)))

\* the document insert_one stores (user id and timestamp left out)
PredictionDocument(r) ==
    [stress_level |-> r.stress_level, stress_class |-> r.stress_class,
     confidence |-> r.confidence, model_used |-> r.model_used,
     data_sources |-> r.data_sources]

\* StressPredictionResponse(...), whose validation fails outside [0,100]
PredictionResponse(r) ==
    IF r.stress_level \in 0..100 /\ r.confidence \in 0..1000
    THEN [status |-> 200,
          body |-> [stress_level |-> r.stress_level,
                    stress_class |-> r.stress_class,
                    stress_label |-> get_stress_label(r.stress_level),
                    confidence |-> r.confidence, model_used |-> r.model_used,
                    data_sources |-> r.data_sources]]
    ELSE [status |-> 500, body |-> "Internal Server Error"]

\* a handler that stores the outcome before it looks for an error
HandlePredictStoresFirst(body, den) ==
    LET service == get_prediction_service
        c       == EndpointCall(body)
    IN  /\ CountLoad
        /\ IF ~service.loaded
           THEN /\ prediction_service' = Some(service)
                /\ response' = Some([status |-> 503,
                       body |-> "ML models not loaded. Please try again later."])
                /\ UNCHANGED <<call, classifier, strategy, result, exception,
                               stress_predictions>>
           ELSE /\ call' = c
                /\ \E clf \in BehavioursFor(service, c, den) :
                      CallPredictStress(service, c, clf, den)
                /\ IF IsErrorResult(result') /\ IsNone(result'.stress_level)
                   THEN /\ response' = Some([status |-> 400,
                                             body |-> result'.error])
                        /\ stress_predictions' =
                             Append(stress_predictions, [error |-> result'.error])
                   ELSE /\ stress_predictions' =
                             Append(stress_predictions, PredictionDocument(result'))
                        /\ response' = Some(PredictionResponse(result'))

\* the handler of POST /predict with the given body, for an authenticated
\* user; the classifier gives probabilities in units of 1/den
HandlePredict(body, den) ==
    LET service == get_prediction_service
        c       == EndpointCall(body)
    IN  /\ CountLoad
        /\ IF ~service.loaded
           THEN /\ prediction_service' = Some(service)
                /\ response' = Some([status |-> 503,
                       body |-> "ML models not loaded. Please try again later."])
                /\ UNCHANGED <<call, classifier, strategy, result, exception,
                               stress_predictions>>
           ELSE /\ call' = c
                /\ \E clf \in BehavioursFor(service, c, den) :
                      CallPredictStress(service, c, clf, den)
                /\ IF IsErrorResult(result') /\ IsNone(result'.stress_level)
                   THEN /\ response' = Some([status |-> 400,
                                             body |-> result'.error])
                        /\ UNCHANGED stress_predictions
                   ELSE /\ stress_predictions' =
                             Append(stress_predictions, PredictionDocument(result'))
                        /\ response' = Some(PredictionResponse(result'))

\* POST /predict for the request that is waiting
PredictEndpoint ==
    /\ pc = "waiting"
    /\ ~IsNone(request)
    /\ HandlePredict(Val(request), ProbDen)
    /\ pc' = "done"
    /\ UNCHANGED <<otherServices, pywt, models_dir, request, status>>

\* the models GET /status lists as available
AvailableModels(service) ==
    (IF service.fusion_model THEN {"fusion"} ELSE {})
    \cup (IF service.eeg_model THEN {"eeg_only"} ELSE {})
    \cup (IF service.ecg_model THEN {"ecg_only"} ELSE {})

\* the handler of GET /status
GetModelStatus ==
    /\ UseService
    /\ status' = Some([models_loaded |-> get_prediction_service.loaded,
                       available_models |-> AvailableModels(get_prediction_service)])
    /\ UNCHANGED <<otherServices, pywt, models_dir, pc, request, call, classifier, strategy, result,
                   exception, response, stress_predictions>>

NextRouter == GetPredictionService \/ PredictEndpoint \/ GetModelStatus

SpecRouter == InitRouter /\ [][NextRouter]_vars


(***************************************************************************)
(* The process over time: after start-up (main.py's lifespan only opens    *)
(* the database) requests arrive in any order and number.  The handlers    *)
(* are coroutines that call the service without awaiting, so each call of  *)
(* the service runs to its end before another handler runs.                *)
(***************************************************************************)
\* db.stress_predictions holds at most MaxPredictions documents
MaxPredictions == 1

\* the classifier of the running process answers in units of 1/2^ProcessProbBits
ProcessProbBits == 1

ProcessProbDen == 2^ProcessProbBits

ProcessBodies ==
    LET eeg    == Some([channels |-> [c \in {"AF3"} |-> <<60>>], sampling_rate |-> 128])
        health == Some([hrv_values |-> Some(<<20, 70>>), rr_values |-> Some(<<10, 20>>),
                        hr_values |-> None])
        hr     == Some([hrv_values |-> None, rr_values |-> Some(<<>>),
                        hr_values |-> Some(<<60, 90>>)])
    IN  {[eeg_data |-> e, health_data |-> h, emotiv_metrics |-> None] :
           e \in {None, eeg}, h \in {None, health, hr}}

\* lifespan has run: no service instance yet, nothing requested
InitServer ==
    /\ InitProcess
    /\ call = NoCall
    /\ request = None

\* POST /predict arrives with some body
PostPredict ==
    /\ Len(stress_predictions) < MaxPredictions
    /\ \E body \in ProcessBodies :
          /\ request' = Some(body)
          /\ HandlePredict(body, ProcessProbDen)
    /\ UNCHANGED <<otherServices, pywt, models_dir, pc, status>>

\* FeatureContribution(**contributions): a field that is not given is None
FeatureContribution(contributions) ==
    [key \in {"hrv", "rr", "hr", "eeg"} |->
       IF key \in DOMAIN contributions THEN Some(contributions[key]) ELSE None]

\* ExplainabilityResponse(...) (timestamp left out)
ExplainResponse(r, contributions_result) ==
    [status |-> 200,
     body |-> [stress_level |-> r.stress_level,
               stress_label |-> get_stress_label(r.stress_level),
               confidence |-> r.confidence,
               contributions |-> FeatureContribution(contributions_result.contributions),
               descriptions |-> contributions_result.descriptions]]

\* the handler of POST /predict/explain with the given body
HandleExplain(body, den) ==
    LET service == get_prediction_service
        c       == EndpointCall(body)
    IN  /\ CountLoad
        /\ UNCHANGED stress_predictions
        /\ IF ~service.loaded
           THEN /\ prediction_service' = Some(service)
                /\ response' = Some([status |-> 503,
                       body |-> "ML models not loaded. Please try again later."])
                /\ UNCHANGED <<call, classifier, strategy, result, exception>>
           ELSE /\ call' = c
                /\ \E clf \in BehavioursFor(service, c, den) :
                      CallPredictStress(service, c, clf, den)
                /\ IF IsErrorResult(result') /\ IsNone(result'.stress_level)
                   THEN response' = Some([status |-> 400, body |-> result'.error])
                   ELSE response' = Some(ExplainResponse(result',
                           get_feature_contributions(SelfAfterCall(service),
                               c.eeg_data, c.hrv_values, c.rr_values, c.hr_values)))

\* POST /predict/explain arrives with some body
PostExplain ==
    /\ \E body \in ProcessBodies :
          /\ request' = Some(body)
          /\ HandleExplain(body, ProcessProbDen)
    /\ UNCHANGED <<otherServices, pywt, models_dir, pc, status>>

NextServer == PostPredict \/ PostExplain \/ GetModelStatus

SpecServer == InitServer /\ [][NextServer]_vars


(***************************************************************************)
(* extract_eeg_features on its own, over channel mappings of every shape.  *)
(***************************************************************************)
\* a mapping holds at most MaxChannels channels
MaxChannels == 2

\* a signal of each length the code tells apart, up to a full second
SignalInputs == {[i \in 1..n |-> 60] : n \in {0, 3, 4, 128}}

\* channel mappings: canonical names and one name that is not a channel
EegMappings ==
    LET names == {EEG_CHANNELS[i] : i \in 1..Len(EEG_CHANNELS)} \cup {"Fp1"}
    IN  UNION {[P -> SignalInputs] :
                 P \in {Q \in SUBSET names : Cardinality(Q) <= MaxChannels}}

InitEeg ==
    /\ models_dir = [fusion |-> "ok", eeg |-> "ok", ecg |-> "ok"]
    /\ prediction_service = None
    /\ pc = "waiting"
    /\ classifier = NotCalled
    /\ strategy = "none"
    /\ result = <<>>
    /\ exception = None
    /\ response = None
    /\ stress_predictions = <<>>
    /\ status = None
    /\ loads = 0
    /\ OtherServicesIdle
    /\ request = None
    /\ call \in {Call("extract_eeg_features", Some(m), None, None, None, None) :
                   m \in EegMappings}
    /\ pywt \in SUBSET {c \in DOMAIN Val(call.eeg_data) : Len(Val(call.eeg_data)[c]) > 0}

\* extract_eeg_features(eeg_data), at the default sampling rate; the result
\* keeps the list features as it was before it was cut to size
ExtractEegFeatures ==
    /\ pc = "waiting"
    /\ call.fn = "extract_eeg_features"
    /\ result' = [features |-> EegFeatureList(Val(call.eeg_data), 128, pywt,
                                              Len(EEG_CHANNELS)),
                  returned |-> extract_eeg_features(Val(call.eeg_data), 128, pywt)]
    /\ pc' = "done"
    /\ UNCHANGED <<otherServices, pywt, models_dir, prediction_service, request, call, classifier,
                   strategy, exception, response, stress_predictions, status, loads>>

NextEeg == ExtractEegFeatures

SpecEeg == InitEeg /\ [][NextEeg]_vars


(***************************************************************************)
(* extract_ecg_features on its own, over every combination of series.      *)
(***************************************************************************)
\* a cardiac series holds at most MaxEcgLen samples
MaxEcgLen == 2

EcgSeries == {None} \cup {Some(x) : x \in SeqsUpTo({50, 110}, MaxEcgLen)}

InitEcg ==
    /\ models_dir = [fusion |-> "ok", eeg |-> "ok", ecg |-> "ok"]
    /\ prediction_service = None
    /\ pc = "waiting"
    /\ classifier = NotCalled
    /\ strategy = "none"
    /\ result = <<>>
    /\ exception = None
    /\ response = None
    /\ stress_predictions = <<>>
    /\ status = None
    /\ loads = 0
    /\ OtherServicesIdle
    /\ pywt = {}
    /\ request = None
    /\ call \in {Call("extract_ecg_features", None, hrv, rr, hr, None) :
                   hrv \in EcgSeries, rr \in EcgSeries, hr \in EcgSeries}

ExtractEcgFeatures ==
    /\ pc = "waiting"
    /\ call.fn = "extract_ecg_features"
    /\ result' = [returned |-> extract_ecg_features(call.hrv_values, call.rr_values,
                                                    call.hr_values)]
    /\ pc' = "done"
    /\ UNCHANGED <<otherServices, pywt, models_dir, prediction_service, request, call, classifier,
                   strategy, exception, response, stress_predictions, status, loads>>

NextEcg == ExtractEcgFeatures

SpecEcg == InitEcg /\ [][NextEcg]_vars


(***************************************************************************)
(* get_feature_contributions on its own.                                   *)
(***************************************************************************)
\* a series given to get_feature_contributions holds at most MaxSamples samples
MaxSamples == 3

\* series of samples drawn from the given values
SampleSeries(values) == {None} \cup {Some(x) : x \in SeqsUpTo(values, MaxSamples)}

InitContributions ==
    /\ models_dir = [fusion |-> "ok", eeg |-> "ok", ecg |-> "ok"]
    /\ prediction_service = None
    /\ pc = "waiting"
    /\ classifier = NotCalled
    /\ strategy = "none"
    /\ result = <<>>
    /\ exception = None
    /\ response = None
    /\ stress_predictions = <<>>
    /\ status = None
    /\ loads = 0
    /\ OtherServicesIdle
    /\ pywt = {}
    /\ request = None
    /\ call \in {Call("get_feature_contributions", e, hrv, rr, hr, None) :
                   e \in EegInputs, hrv \in SampleSeries({20, 70}),
                   rr \in SampleSeries({10, 20}), hr \in SampleSeries({60, 90})}

GetFeatureContributions ==
    /\ pc = "waiting"
    /\ call.fn = "get_feature_contributions"
    /\ result' = get_feature_contributions(NewService, call.eeg_data, call.hrv_values,
                                           call.rr_values, call.hr_values)
    /\ pc' = "done"
    /\ UNCHANGED <<otherServices, pywt, models_dir, prediction_service, request, call, classifier,
                   strategy, exception, response, stress_predictions, status, loads>>

NextContributions == GetFeatureContributions

SpecContributions == InitContributions /\ [][NextContributions]_vars


(***************************************************************************)
(* app/services/streak_service.py, for one user.  A document is a function *)
(* from its field names to their values (user_id, _id, created_at and      *)
(* updated_at are left out); a datetime is a number of half days, so that  *)
(* two times of one day differ.                                            *)
(***************************************************************************)
CELEBRATION_MILESTONES == {1, 3, 7, 14, 30, 60, 90, 180, 365}

\* datetime.date()
Date(t) == t \div 2

\* dict.get(key, default)
Get(doc, key, default) == IF key \in DOMAIN doc THEN doc[key] ELSE default

\* update_one(filter, {"$set": fields}) on the user's document; with upsert
\* a missing document is created from the filter and the fields
UpdateOne(doc, fields, upsert) ==
    IF IsNone(doc)
    THEN IF upsert THEN Some(fields) ELSE None
    ELSE Some([key \in DOMAIN Val(doc) \cup DOMAIN fields |->
                 IF key \in DOMAIN fields THEN fields[key] ELSE Val(doc)[key]])

\* StreakService.get_streak: the stored document, or the default dict
get_streak(doc) ==
    IF IsNone(doc)
    THEN [streak_count |-> 0, last_completion_date |-> None,
          last_celebration_date |-> None, longest_streak |-> 0]
    ELSE Val(doc)

\* StreakService.check_and_update_streak: what it returns or raises, and
\* the document it leaves
check_and_update_streak(doc, utcnow) ==
    LET streak_doc == get_streak(doc)
        last_date  == Get(streak_doc, "last_completion_date", None)
        days_since == Date(utcnow) - Date(Val(last_date))
    IN  IF "streak_count" \notin DOMAIN streak_doc
        THEN [out |-> Raise("KeyError: 'streak_count'"), streaks |-> doc]
        ELSE IF streak_doc["streak_count"] = 0
        THEN [out |-> Return(0), streaks |-> doc]
        ELSE IF IsNone(last_date)
        THEN [out |-> Return(0), streaks |-> doc]
        ELSE IF days_since > 1
        THEN [out |-> Return(0),
              streaks |-> UpdateOne(doc, [streak_count |-> 0], FALSE)]
        ELSE [out |-> Return(streak_doc["streak_count"]), streaks |-> doc]

\* a streak that grows on a completion of the same day as well
complete_goal_update_counting_same_day(streak_doc, today) ==
    LET current_streak == Get(streak_doc, "streak_count", 0)
        last_date      == Get(streak_doc, "last_completion_date", None)
        longest_streak == Get(streak_doc, "longest_streak", 0)
        days_since     == Date(today) - Date(Val(last_date))
        first          == IsNone(last_date)
        new_streak     == IF first THEN 1
                          ELSE IF days_since \in {0, 1} THEN current_streak + 1
                          ELSE 1
        is_new_streak  == first \/ days_since \notin {0, 1}
        should_celebrate ==
            IF first \/ days_since \notin {0, 1} THEN TRUE
            ELSE new_streak \in CELEBRATION_MILESTONES \/ new_streak % 30 = 0
    IN  [out |-> Return([streak_count |-> new_streak,
                         is_new_streak |-> is_new_streak,
                         should_celebrate |-> should_celebrate,
                         milestone_reached |->
                            IF should_celebrate THEN Some(new_streak) ELSE None]),
         set |-> [streak_count |-> new_streak,
                  last_completion_date |-> Some(today),
                  longest_streak |-> IF new_streak > longest_streak
                                     THEN new_streak ELSE longest_streak]]

\* StreakService.complete_goal between its read and its write: what it
\* returns and the fields it will $set, from the document that get_streak
\* gave it (the message text is left out)
complete_goal_update(streak_doc, today) ==
    LET current_streak == Get(streak_doc, "streak_count", 0)
        last_date      == Get(streak_doc, "last_completion_date", None)
        longest_streak == Get(streak_doc, "longest_streak", 0)
        days_since     == Date(today) - Date(Val(last_date))
        first          == IsNone(last_date)
        new_streak     == IF first THEN 1
                          ELSE IF days_since = 0 THEN current_streak
                          ELSE IF days_since = 1 THEN current_streak + 1
                          ELSE 1
        is_new_streak  == first \/ days_since \notin {0, 1}
        should_celebrate ==
            IF first THEN TRUE
            ELSE IF days_since = 0 THEN FALSE
            ELSE IF days_since = 1
            THEN new_streak \in CELEBRATION_MILESTONES \/ new_streak % 30 = 0
            ELSE TRUE
    IN  [out |-> Return([streak_count |-> new_streak,
                         is_new_streak |-> is_new_streak,
                         should_celebrate |-> should_celebrate,
                         milestone_reached |->
                            IF should_celebrate THEN Some(new_streak) ELSE None]),
         set |-> [streak_count |-> new_streak,
                  last_completion_date |-> Some(today),
                  longest_streak |-> IF new_streak > longest_streak
                                     THEN new_streak ELSE longest_streak]]

\* StreakService.complete_goal when nothing else runs between its read and
\* its write
complete_goal(doc, today) ==
    LET update == complete_goal_update(get_streak(doc), today)
    IN  [out |-> update.out, streaks |-> UpdateOne(doc, update.set, TRUE)]

\* StreakService.mark_celebration_seen
mark_celebration_seen(doc, utcnow) ==
    [out |-> Return(TRUE),
     streaks |-> UpdateOne(doc, [last_celebration_date |-> Some(utcnow)], TRUE)]

\* a reset that clears the longest streak too
reset_streak_clearing_longest(doc) ==
    [out |-> Return(TRUE),
     streaks |-> UpdateOne(doc, [streak_count |-> 0, last_completion_date |-> None,
                                 last_celebration_date |-> None,
                                 longest_streak |-> 0], TRUE)]

\* StreakService.reset_streak
reset_streak(doc) ==
    [out |-> Return(TRUE),
     streaks |-> UpdateOne(doc, [streak_count |-> 0, last_completion_date |-> None,
                                 last_celebration_date |-> None], TRUE)]


\* the clock stops at MaxTime half days
MaxTime == 7

InitStreak ==
    /\ models_dir = [fusion |-> "ok", eeg |-> "ok", ecg |-> "ok"]
    /\ prediction_service = None
    /\ pc = "waiting"
    /\ classifier = NotCalled
    /\ strategy = "none"
    /\ result = <<>>
    /\ exception = None
    /\ response = None
    /\ stress_predictions = <<>>
    /\ status = None
    /\ loads = 0
    /\ pywt = {}
    /\ request = None
    /\ call = NoCall
    /\ OtherServicesIdle

\* the variables the streak requests leave alone
streakFrame == <<pywt, models_dir, prediction_service, pc, request, classifier,
                 strategy, stress_predictions, status, loads, daily_goals,
                 notification_logs, notification_preferences, devices, procs>>

\* time passes
Tick ==
    /\ now < MaxTime
    /\ now' = now + 1
    /\ UNCHANGED <<streaks, call, result, exception, response, streakFrame>>

\* what a call of the streak service leaves: its name, what it returned or
\* raised, and the stored document
StreakCall(fn, outcome) ==
    /\ call' = Call(fn, None, None, None, None, None)
    /\ result' = IF outcome.out.raised THEN <<>> ELSE outcome.out.value
    /\ exception' = IF outcome.out.raised THEN Some(outcome.out.value) ELSE None
    /\ streaks' = outcome.streaks

\* GET /v1/streak: check_and_update_streak, then the stored document again
GetStreak ==
    /\ LET outcome == check_and_update_streak(streaks, now)
           streak_data == get_streak(outcome.streaks)
       IN  /\ StreakCall("check_and_update_streak", outcome)
           /\ response' =
                IF outcome.out.raised
                THEN Some([status |-> 500, body |-> "Internal Server Error"])
                ELSE Some([status |-> 200,
                           body |-> [streakCount |-> outcome.out.value,
                                     lastCompletionDate |->
                                        Get(streak_data, "last_completion_date", None),
                                     lastCelebrationDate |->
                                        Get(streak_data, "last_celebration_date", None),
                                     longestStreak |->
                                        Get(streak_data, "longest_streak", 0)]])
    /\ UNCHANGED <<now, streakFrame>>

\* POST /v1/streak/complete
CompleteStreak ==
    /\ LET outcome == complete_goal(streaks, now)
       IN  /\ StreakCall("complete_goal", outcome)
           /\ response' = Some([status |-> 200, body |-> outcome.out.value])
    /\ UNCHANGED <<now, streakFrame>>

\* POST /v1/streak/celebration/seen
MarkCelebrationSeen ==
    /\ StreakCall("mark_celebration_seen", mark_celebration_seen(streaks, now))
    /\ response' = Some([status |-> 200, body |-> [success |-> TRUE, hasSeenToday |-> TRUE]])
    /\ UNCHANGED <<now, streakFrame>>

\* POST /v1/streak/reset
ResetStreak ==
    /\ StreakCall("reset_streak", reset_streak(streaks))
    /\ response' = Some([status |-> 200, body |-> [success |-> TRUE]])
    /\ UNCHANGED <<now, streakFrame>>

NextStreak == Tick \/ GetStreak \/ CompleteStreak \/ MarkCelebrationSeen \/ ResetStreak

SpecStreak == InitStreak /\ [][NextStreak]_vars


(***************************************************************************)
(* app/services/goals_service.py: POST /v1/goals/complete for one user.    *)
(* Each await of a database call is a point where another handler may run, *)
(* so a handler is one step per database call.                             *)
(***************************************************************************)
\* at most NumHandlers requests are in flight at once
NumHandlers == 2

DEFAULT_GOAL_TYPES == <<"breathing", "stress_check">>

\* _create_goal_from_type without an existing goal (id, title and
\* description are left out)
_create_goal_from_type(goal_type) ==
    [goal_type |-> goal_type, is_completed |-> FALSE, completed_at |-> None]

\* the document get_daily_goals creates for a day without one
DefaultGoalsDoc(day) ==
    [date |-> day,
     goals |-> [i \in 1..Len(DEFAULT_GOAL_TYPES) |->
                  _create_goal_from_type(DEFAULT_GOAL_TYPES[i])]]

\* find_one({"user_id": .., "date": ..}): the place of the oldest document
\* of that day, or None
FindDay(docs, day) ==
    LET found == {i \in 1..Len(docs) : docs[i].date = day}
    IN  IF found = {} THEN None
        ELSE Some(CHOOSE i \in found : \A j \in found : i <= j)

\* the loop of complete_goal over the goals it read
MarkCompleted(goals, goal_type, today) ==
    LET found == {i \in 1..Len(goals) : goals[i].goal_type = goal_type}
        first == CHOOSE i \in found : \A j \in found : i <= j
    IN  IF found = {}
        THEN [goal_found |-> FALSE, already_completed |-> FALSE, goals |-> goals]
        ELSE IF goals[first].is_completed
        THEN [goal_found |-> TRUE, already_completed |-> TRUE, goals |-> goals]
        ELSE [goal_found |-> TRUE, already_completed |-> FALSE,
              goals |-> [goals EXCEPT ![first] =
                           [@ EXCEPT !.is_completed = TRUE,
                                     !.completed_at = Some(today)]]]

\* a handler that has not started
NewHandler(goal_type) ==
    [pc |-> "start", goal_type |-> goal_type, today |-> 0, goals |-> <<>>,
     already_completed |-> FALSE, streak_doc |-> <<>>, raised |-> FALSE]

InitGoals ==
    /\ models_dir = [fusion |-> "ok", eeg |-> "ok", ecg |-> "ok"]
    /\ prediction_service = None
    /\ pc = "waiting"
    /\ classifier = NotCalled
    /\ strategy = "none"
    /\ result = <<>>
    /\ exception = None
    /\ response = None
    /\ stress_predictions = <<>>
    /\ status = None
    /\ loads = 0
    /\ pywt = {}
    /\ request = None
    /\ call = NoCall
    /\ now = 0
    /\ streaks = None
    /\ notification_logs = <<>>
    /\ notification_preferences = None
    /\ devices = 0
    /\ daily_goals \in {<<>>, <<DefaultGoalsDoc(0)>>}
    /\ procs \in [1..NumHandlers ->
                    {NewHandler(g) : g \in {"breathing", "stress_check", "custom"}}]

\* the variables the goals requests leave alone
goalsFrame == <<pywt, models_dir, prediction_service, pc, request, call, classifier,
                strategy, result, exception, response, stress_predictions, status,
                loads, now, notification_logs, notification_preferences, devices>>

\* get_daily_goals: await find_one
FindGoals ==
  \E p \in DOMAIN procs :
    LET self  == procs[p]
        found == FindDay(daily_goals, Date(now))
    IN  /\ self.pc = "start"
        /\ procs' = [procs EXCEPT ![p] =
              IF IsNone(found)
              THEN [self EXCEPT !.pc = "insert", !.today = now,
                                !.goals = DefaultGoalsDoc(Date(now)).goals]
              ELSE [self EXCEPT !.pc = "update", !.today = now,
                                !.goals = daily_goals[Val(found)].goals]]
        /\ UNCHANGED <<daily_goals, streaks, goalsFrame>>

\* get_daily_goals: await insert_one of the default document
InsertGoals ==
  \E p \in DOMAIN procs :
    LET self == procs[p]
    IN  /\ self.pc = "insert"
        /\ daily_goals' = Append(daily_goals, DefaultGoalsDoc(Date(self.today)))
        /\ procs' = [procs EXCEPT ![p] = [self EXCEPT !.pc = "update"]]
        /\ UNCHANGED <<streaks, goalsFrame>>

\* complete_goal: the loop over the goals, then ValueError or await
\* update_one($set goals) on the oldest document of the day
UpdateGoals ==
  \E p \in DOMAIN procs :
    LET self   == procs[p]
        marked == MarkCompleted(self.goals, self.goal_type, self.today)
        found  == FindDay(daily_goals, Date(self.today))
    IN  /\ self.pc = "update"
        /\ IF ~marked.goal_found
           THEN /\ procs' = [procs EXCEPT ![p] =
                                [self EXCEPT !.pc = "done", !.raised = TRUE]]
                /\ UNCHANGED daily_goals
           ELSE /\ daily_goals' =
                     IF IsNone(found) THEN daily_goals
                     ELSE [daily_goals EXCEPT ![Val(found)].goals = marked.goals]
                /\ procs' = [procs EXCEPT ![p] =
                      [self EXCEPT !.goals = marked.goals,
                                   !.already_completed = marked.already_completed,
                                   !.pc = IF marked.already_completed
                                          THEN "done" ELSE "streak"]]
        /\ UNCHANGED <<streaks, goalsFrame>>

\* streak_service.complete_goal: await get_streak
ReadStreak ==
  \E p \in DOMAIN procs :
    LET self == procs[p]
    IN  /\ self.pc = "streak"
        /\ procs' = [procs EXCEPT ![p] =
              [self EXCEPT !.pc = "streak_write", !.streak_doc = get_streak(streaks)]]
        /\ UNCHANGED <<daily_goals, streaks, goalsFrame>>

\* streak_service.complete_goal: await update_one, then the handler returns
WriteStreak ==
  \E p \in DOMAIN procs :
    LET self == procs[p]
    IN  /\ self.pc = "streak_write"
        /\ streaks' = UpdateOne(streaks,
                                complete_goal_update(self.streak_doc, now).set, TRUE)
        /\ procs' = [procs EXCEPT ![p] = [self EXCEPT !.pc = "done"]]
        /\ UNCHANGED <<daily_goals, goalsFrame>>


NextGoals == FindGoals \/ InsertGoals \/ UpdateGoals \/ ReadStreak \/ WriteStreak

SpecGoals == InitGoals /\ [][NextGoals]_vars


(***************************************************************************)
(* app/services/notification_service.py: POST /v1/notifications/send-test  *)
(* for one user, within one UTC day.  A handler is one step per database   *)
(* call it awaits.                                                         *)
(***************************************************************************)
\* the largest integer max_per_day a user has set
MaxPerDay == 1

\* max_per_day is the string "unlimited", here the empty set, or an
\* integer n, here {n}
Unlimited == {}

\* datetime.now(timezone.utc).time() at the instant t, as hour and minute:
\* midnight or noon.  time(hour, minute) and "HH:MM" are <<hour, minute>>
ClockTime(t) == <<12 * (t % 2), 0>>

\* a < b of datetime.time
TimeLess(a, b) == a[1] < b[1] \/ (a[1] = b[1] /\ a[2] < b[2])

_get_default_preferences_dict ==
    [enabled |-> TRUE,
     max_per_day |-> Unlimited,
     quiet_hours |-> [enabled |-> TRUE, start |-> <<22, 0>>,
                      end |-> <<7, 0>>],
     stress_alerts |-> TRUE,
     daily_reminders |-> TRUE]

_format_preferences(prefs) ==
    [enabled |-> Get(prefs, "enabled", TRUE),
     max_per_day |-> Get(prefs, "max_per_day", Unlimited),
     quiet_hours |-> Get(prefs, "quiet_hours",
                         _get_default_preferences_dict.quiet_hours),
     stress_alerts |-> Get(prefs, "stress_alerts", TRUE),
     daily_reminders |-> Get(prefs, "daily_reminders", TRUE)]

\* get_preferences on the stored document, or None
get_preferences(doc) ==
    IF IsNone(doc) THEN _get_default_preferences_dict
    ELSE _format_preferences(Val(doc))

is_quiet_hours(quiet_hours, t) ==
    LET current_time == ClockTime(t)
        start_time   == quiet_hours.start
        end_time     == quiet_hours.end
    IN  IF ~quiet_hours.enabled THEN FALSE
        ELSE IF TimeLess(end_time, start_time)
        THEN ~TimeLess(current_time, start_time) \/ TimeLess(current_time, end_time)
        ELSE ~TimeLess(current_time, start_time) /\ TimeLess(current_time, end_time)

\* type_key_map of can_send_notification, for the types a request may have
NotificationTypes == {"stress_alert", "daily_reminder"}

TypeEnabled(prefs, notification_type) ==
    IF notification_type = "stress_alert" THEN prefs.stress_alerts
    ELSE prefs.daily_reminders

\* count_documents of the logs whose sent_at is in the UTC day of t
TodayCount(logs, t) ==
    Cardinality({i \in 1..Len(logs) : Date(logs[i].sent_at) = Date(t)})

\* today_count >= max_per_day, when max_per_day is not "unlimited"
DailyLimitReached(max_per_day, today_count) ==
    max_per_day # Unlimited /\ today_count >= Val(max_per_day)

\* a send_notification call (force is False) that has not started
NewSend(notification_type) ==
    [pc |-> "start", notification_type |-> notification_type,
     max_per_day |-> Unlimited, log |-> 0, reason |-> "none"]

\* the preference documents a user may have stored
PreferenceDocuments ==
    [enabled : BOOLEAN,
     max_per_day : {Unlimited} \cup {Some(n) : n \in 0..MaxPerDay},
     quiet_hours : {[enabled |-> e, start |-> w[1], end |-> w[2]] :
                       e \in BOOLEAN,
                       w \in {<< <<22, 0>>, <<7, 0>> >>, << <<9, 0>>, <<17, 0>> >>}},
     stress_alerts : BOOLEAN,
     daily_reminders : BOOLEAN]

InitNotifications ==
    /\ models_dir = [fusion |-> "ok", eeg |-> "ok", ecg |-> "ok"]
    /\ prediction_service = None
    /\ pc = "waiting"
    /\ classifier = NotCalled
    /\ strategy = "none"
    /\ result = <<>>
    /\ exception = None
    /\ response = None
    /\ stress_predictions = <<>>
    /\ status = None
    /\ loads = 0
    /\ pywt = {}
    /\ request = None
    /\ call = NoCall
    /\ streaks = None
    /\ daily_goals = <<>>
    /\ now \in {0, 1}
    /\ notification_logs = <<>>
    /\ notification_preferences \in {None} \cup {Some(d) : d \in PreferenceDocuments}
    /\ devices \in {0, 1}
    /\ procs \in [1..NumHandlers -> {NewSend(t) : t \in NotificationTypes}]

\* the variables the notification requests leave alone
notifyFrame == <<pywt, models_dir, prediction_service, pc, request, call, classifier,
                 strategy, result, exception, response, stress_predictions, status,
                 loads, streaks, daily_goals, notification_preferences, devices>>

\* time passes within the UTC day
SameDayTick ==
    /\ Date(now + 1) = Date(now)
    /\ now' = now + 1
    /\ UNCHANGED <<notification_logs, procs, notifyFrame>>

\* can_send_notification: await get_preferences, then the checks of
\* enabled, of the type and of the quiet hours
GetPreferences ==
  \E p \in DOMAIN procs :
    LET self  == procs[p]
        prefs == get_preferences(notification_preferences)
        reason == IF ~prefs.enabled THEN "notifications_disabled"
                  ELSE IF ~TypeEnabled(prefs, self.notification_type)
                  THEN "type_disabled"
                  ELSE IF is_quiet_hours(prefs.quiet_hours, now) THEN "quiet_hours"
                  ELSE "none"
    IN  /\ self.pc = "start"
        /\ procs' = [procs EXCEPT ![p] =
              [self EXCEPT !.pc = IF reason = "none" THEN "count" ELSE "done",
                           !.reason = reason,
                           !.max_per_day = prefs.max_per_day]]
        /\ UNCHANGED <<now, notification_logs, notifyFrame>>

\* can_send_notification: await count_documents, then the daily limit
CountToday ==
  \E p \in DOMAIN procs :
    LET self == procs[p]
        today_count == TodayCount(notification_logs, now)
    IN  /\ self.pc = "count"
        /\ procs' = [procs EXCEPT ![p] =
              IF DailyLimitReached(self.max_per_day, today_count)
              THEN [self EXCEPT !.pc = "done", !.reason = "daily_limit_reached"]
              ELSE [self EXCEPT !.pc = "devices"]]
        /\ UNCHANGED <<now, notification_logs, notifyFrame>>

\* send_notification: await get_user_devices
GetDevices ==
  \E p \in DOMAIN procs :
    LET self == procs[p]
    IN  /\ self.pc = "devices"
        /\ procs' = [procs EXCEPT ![p] =
              IF devices = 0
              THEN [self EXCEPT !.pc = "done", !.reason = "no_devices"]
              ELSE [self EXCEPT !.pc = "insert"]]
        /\ UNCHANGED <<now, notification_logs, notifyFrame>>

\* send_notification: await insert_one of the log
InsertLog ==
  \E p \in DOMAIN procs :
    LET self == procs[p]
    IN  /\ self.pc = "insert"
        /\ notification_logs' = Append(notification_logs,
              [type |-> self.notification_type, sent_at |-> now, delivered |-> FALSE])
        /\ procs' = [procs EXCEPT ![p] =
              [self EXCEPT !.pc = "deliver", !.log = Len(notification_logs) + 1]]
        /\ UNCHANGED <<now, notifyFrame>>

\* send_notification: the send to every device, await update_one of the
\* log, then the handler returns
Deliver ==
  \E p \in DOMAIN procs :
    LET self == procs[p]
    IN  /\ self.pc = "deliver"
        /\ notification_logs' =
              [notification_logs EXCEPT ![self.log].delivered = devices > 0]
        /\ procs' = [procs EXCEPT ![p] = [self EXCEPT !.pc = "done"]]
        /\ UNCHANGED <<now, notifyFrame>>


NextNotifications ==
    SameDayTick \/ GetPreferences \/ CountToday \/ GetDevices \/ InsertLog \/ Deliver

SpecNotifications == InitNotifications /\ [][NextNotifications]_vars

(***************************************************************************)
(* Properties.                                                             *)
(***************************************************************************)
Served == pc = "done" /\ call.fn = "predict_stress"
Service == Val(prediction_service)

\* usable inputs, as section 4.4 of the specification defines them
UsableEeg == ~IsNone(call.eeg_data) /\ DOMAIN Val(call.eeg_data) # {}
UsableCardiac == NonEmpty(call.hrv_values) \/ NonEmpty(call.rr_values)
MetricsPresent == ~IsNone(call.emotiv_metrics)

\* a path is loaded when its model and its scaler are
FusionLoaded == Service.fusion_model /\ Service.fusion_scaler
EegLoaded == Service.eeg_model /\ Service.eeg_scaler
EcgLoaded == Service.ecg_model /\ Service.ecg_scaler

\* the strategy the priority order asks for
PriorityStrategy ==
    IF UsableEeg /\ UsableCardiac /\ FusionLoaded THEN "fusion"
    ELSE IF UsableEeg /\ EegLoaded THEN "eeg_only"
    ELSE IF UsableCardiac /\ EcgLoaded THEN "ecg_only"
    ELSE IF MetricsPresent THEN "heuristic"
    ELSE "error"

\* C1: predict_stress takes the first strategy that applies, in the order
\* fusion > eeg_only > ecg_only > heuristic > error, for every combination of
\* usable EEG, usable cardiac data, loaded fusion/EEG/cardiac path and
\* present heuristic metrics.
C1_StrictPriority ==
    Served =>
      (IF strategy = "not_loaded" THEN "error" ELSE strategy) = PriorityStrategy

\* C2: a path whose files are missing or fail to load disables only itself:
\* every path whose model and scaler are present and loadable is loaded,
\* whatever happens to the other paths, and predict_stress still selects it.
C2_OnlyOwnPathDisabled ==
    ~IsNone(prediction_service) =>
      /\ models_dir.fusion = "ok" => FusionLoaded
      /\ models_dir.eeg = "ok" => EegLoaded
      /\ models_dir.ecg = "ok" => EcgLoaded
      /\ (Served /\ models_dir.eeg = "ok" /\ UsableEeg
            /\ ~(UsableCardiac /\ models_dir.fusion = "ok"))
         => strategy = "eeg_only"
      /\ (Served /\ models_dir.ecg = "ok" /\ UsableCardiac /\ ~UsableEeg)
         => strategy = "ecg_only"

\* C3: when a model strategy was selected and its scaling or classification
\* raises, predict_stress returns the error result (a message, stress_level
\* None, confidence None) and no exception reaches the caller.
C3_RaiseBecomesErrorResult ==
    (Served /\ UsesClassifier(strategy)
       /\ classifier.raises \in {"transform", "predict"})
    => /\ IsNone(exception)
       /\ IsErrorResult(result)
       /\ IsNone(result.stress_level)
       /\ IsNone(result.confidence)

C3_Witness ==
    /\ Served
    /\ strategy = "fusion"
    /\ classifier.raises = "predict"
    /\ IsErrorResult(result)
    /\ result.error = "predict failed"

\* C4: a request without usable EEG data, usable cardiac data and heuristic
\* metrics gets an error result with a message, stress_level None and
\* confidence None, and predict_stress does not raise.
C4_NoDataIsErrorResult ==
    (Served /\ ~UsableEeg /\ ~UsableCardiac /\ ~MetricsPresent)
    => /\ IsNone(exception)
       /\ IsErrorResult(result)
       /\ result.error \in {"No valid sensor data provided", "Models not loaded"}
       /\ IsNone(result.stress_level)
       /\ IsNone(result.confidence)

\* hrv=[], rr=[], hr=[], eeg_data=None and no metrics, on a loaded service
C4_Witness ==
    /\ Served
    /\ Service.loaded
    /\ call = Call("predict_stress", None, Some(<<>>), Some(<<>>), Some(<<>>), None)
    /\ result = [error |-> "No valid sensor data provided",
                 stress_level |-> None, confidence |-> None]

\* C5: in every non-error result, on any strategy and for any classifier
\* output or heuristic metric values, stress_level is an integer in 0..100
\* and confidence lies in [0,100] (in tenths of a percent: 0..1000).
C5_LevelAndConfidenceInRange ==
    (Served /\ ~IsErrorResult(result))
    => /\ result.stress_level \in 0..100
       /\ result.confidence \in 0..1000

\* C6, as claimed: in every non-error result model_used is one of fusion,
\* eeg_only, ecg_only, heuristic and names the strategy that was executed.
C6_ModelUsedAsClaimed ==
    (Served /\ ~IsErrorResult(result))
    => /\ result.model_used \in {"fusion", "eeg_only", "ecg_only", "heuristic"}
       /\ result.model_used = strategy

\* C6, amended: in every non-error result model_used is one of fusion,
\* eeg_only, ecg_only, emotiv_metrics and names the strategy that was
\* executed, the heuristic strategy under the name emotiv_metrics.
C6_ModelUsedNamesStrategy ==
    (Served /\ ~IsErrorResult(result))
    => /\ result.model_used \in {"fusion", "eeg_only", "ecg_only", "emotiv_metrics"}
       /\ result.model_used =
            (IF strategy = "heuristic" THEN "emotiv_metrics" ELSE strategy)

C6_Witness ==
    /\ Served
    /\ strategy = "heuristic"
    /\ ~IsErrorResult(result)
    /\ result.model_used = "emotiv_metrics"

\* C7: on each model strategy, for every distribution [p_normal, p_stress]:
\* stress_class is the class with the larger probability, confidence is
\* that class's probability times 100 (to one decimal), and stress_level is
\* the integer part of p_stress times 100, whichever class won.
C7_LevelFromStressProbability ==
    (Served /\ UsesClassifier(strategy) /\ ~IsErrorResult(result))
    => LET p     == Val(classifier.prediction)
           p_max == IF p[2] > p[1] THEN p[2] ELSE p[1]
           gap   == result.confidence * ProbDen - 1000 * p_max
       IN  /\ p[2] > p[1] => result.stress_class = "stress"
           /\ p[1] > p[2] => result.stress_class = "normal"
           /\ 2 * gap <= ProbDen /\ -2 * gap <= ProbDen
           /\ result.stress_level * ProbDen <= 100 * p[2]
           /\ 100 * p[2] < (result.stress_level + 1) * ProbDen

\* class normal wins with 62.5%: the level is 37, the confidence 62.5
C7_Witness ==
    /\ Served
    /\ strategy = "ecg_only"
    /\ ~IsErrorResult(result)
    /\ 16 * Val(classifier.prediction)[1] = 10 * ProbDen
    /\ result.stress_class = "normal"
    /\ result.stress_level = 37
    /\ result.confidence = 625

HeuristicDone == pc = "done" /\ call.fn = "_predict_from_emotiv_metrics"

\* both metrics given, as numbers in [0,1]
BothMetricsInUnit(m) ==
    /\ DOMAIN m = {"stress", "relaxation"}
    /\ \A k \in DOMAIN m :
         ~IsNone(m[k]) /\ Val(m[k])[1] >= 0 /\ Val(m[k])[1] <= Val(m[k])[2]

\* C8: with stress and relaxation in [0,1] the heuristic result has
\* stress_level = (stress*0.7 + (1-relaxation)*0.3) * 100 (its integer part),
\* confidence 70.0 and all data_sources flags false; {stress: 0.9,
\* relaxation: 0.1} gives stress_level 90, class "stress", confidence 70.0.
C8_HeuristicFormula ==
    (HeuristicDone /\ BothMetricsInUnit(Val(call.emotiv_metrics)))
    => LET m     == Val(call.emotiv_metrics)
           s     == Val(m.stress)
           r     == Val(m.relaxation)
           \* (s*0.7 + (1-r)*0.3) * 100 is exact / (s[2] * r[2])
           exact == 70 * s[1] * r[2] + 30 * (r[2] - r[1]) * s[2]
       IN  /\ IsNone(exception)
           /\ result.stress_level * s[2] * r[2] <= exact
           /\ exact < (result.stress_level + 1) * s[2] * r[2]
           /\ result.confidence = 700
           /\ result.data_sources =
                [eeg |-> FALSE, hrv |-> FALSE, rr |-> FALSE, hr |-> FALSE]
           /\ (10 * s[1] = 9 * s[2] /\ 10 * r[1] = r[2])
              => result.stress_level = 90 /\ result.stress_class = "stress"

\* C9: in every heuristic result stress_class is "stress" exactly when the
\* reported stress_level is greater than 50, and "normal" otherwise.
C9_ClassMatchesReportedLevel ==
    (HeuristicDone /\ IsNone(exception))
    => /\ result.stress_class \in {"stress", "normal"}
       /\ result.stress_class = "stress" <=> result.stress_level > 50

\* a metric that is missing: the key is absent, or the field was left unset
MetricMissing(m, k) == k \notin DOMAIN m \/ IsNone(m[k])
MetricOrDefault(m, k) == IF MetricMissing(m, k) THEN <<5, 10>> ELSE Val(m[k])

\* C10: when the heuristic strategy runs on metrics in which stress or
\* relaxation is missing, the missing metric counts as 0.5 and a prediction
\* (not an error) results, for metrics passed to predict_stress directly and
\* for metrics of a /predict request body with the field left unset.
C10_MissingMetricDefaults ==
    (Served /\ strategy = "heuristic"
       /\ \E k \in {"stress", "relaxation"} :
             MetricMissing(Val(call.emotiv_metrics), k))
    => /\ ~IsErrorResult(result)
       /\ result.stress_level =
            FInt(HeuristicLevel(MetricOrDefault(Val(call.emotiv_metrics), "stress"),
                                MetricOrDefault(Val(call.emotiv_metrics), "relaxation")))

\* C11: cardiac data is usable iff the HRV or the RR series is non-empty:
\* a request whose HR series is non-empty while HRV and RR are empty or
\* absent never selects fusion or ecg_only, whatever models are loaded.
C11_HrAloneIsNotCardiac ==
    (Served /\ NonEmpty(call.hr_values)
       /\ ~NonEmpty(call.hrv_values) /\ ~NonEmpty(call.rr_values))
    => strategy \notin {"fusion", "ecg_only"}

\* HR and EEG given, every model loaded: the EEG path runs, not fusion
C11_Witness ==
    /\ Served
    /\ Service.loaded /\ Service.ecg_model /\ Service.eeg_model
    /\ NonEmpty(call.hr_values)
    /\ IsNone(call.hrv_values) /\ call.rr_values = Some(<<>>)
    /\ UsableEeg
    /\ strategy = "eeg_only"

\* the path a name of the status list stands for has model and scaler loaded
PathLoaded(service, name) ==
    CASE name = "fusion"   -> service.fusion_model /\ service.fusion_scaler
      [] name = "eeg_only" -> service.eeg_model /\ service.eeg_scaler
      [] name = "ecg_only" -> service.ecg_model /\ service.ecg_scaler

\* C12: a path is available, as GET /status reports it and as strategy
\* selection uses it, iff its model and its scaler were both loaded; a path
\* whose model loaded but whose scaler did not is never reported or used.
C12_AvailableIffModelAndScaler ==
    /\ ~IsNone(status) =>
         \A name \in {"fusion", "eeg_only", "ecg_only"} :
            name \in Val(status).available_models <=> PathLoaded(Service, name)
    /\ (Served /\ UsesClassifier(strategy)) => PathLoaded(Service, strategy)

\* C13: the models are loaded exactly once, at process start before any
\* request is handled: every later step, each of them a request being
\* handled, finds one load done, triggers none and leaves the service's
\* objects and flags as they are.
C13_LoadedOnceAtStart ==
    [][loads = 1 /\ loads' = 1 /\ prediction_service' = prediction_service]_vars

\* the service as load_models leaves it when the process first builds it
LoadTimeService == load_models(NewService, models_dir).self

\* the last response is the one of POST /predict/explain
Explained ==
    /\ ~IsNone(response)
    /\ Val(response).status = 200
    /\ "contributions" \in DOMAIN Val(response).body

\* C14: predict_stress and get_feature_contributions are stateless: after
\* any sequence of calls the service (models, scalers, loaded flag) is as
\* loading left it, and the result of the last call is the one its own
\* arguments give on the service as loaded.
C14_CallsAreStateless ==
    ~IsNone(prediction_service) =>
        /\ Service = LoadTimeService
        /\ call.fn = "predict_stress" =>
             result = predict_stress(LoadTimeService, call.eeg_data, call.hrv_values,
                                     call.rr_values, call.hr_values,
                                     call.emotiv_metrics, classifier,
                                     ProcessProbDen).result
        /\ Explained =>
             Val(response).body.contributions =
                 FeatureContribution(Contributions(call.eeg_data, call.hrv_values,
                                                   call.rr_values, call.hr_values))

\* a prediction was stored by one call and a later call was explained from
\* the fusion model
C14_Witness ==
    /\ Len(stress_predictions) >= 1
    /\ Explained
    /\ strategy = "fusion"
    /\ Val(response).body.contributions["hrv"] # None

EegDone == pc = "done" /\ call.fn = "extract_eeg_features"

\* C15: for any channel mapping (empty, any subset of the canonical
\* channels, unknown names, empty or short signals, wavelet transform
\* succeeding or failing per channel) extract_eeg_features returns a vector
\* of length exactly 513.
C15_EegVectorLength == EegDone => Len(result.returned) = 513

\* a channel's wavelet transform failed and the list had to be padded
C15_Witness ==
    /\ EegDone
    /\ pywt # {}
    /\ Len(result.features) < EEG_FEATURE_DIM

\* the canonical channel whose block position p lies in
BlockChannel(p) == EEG_CHANNELS[(p - 1) \div 37 + 1]

\* C16: the EEG vector before the final truncation is 14 consecutive blocks
\* of 37 entries in canonical channel order, the block of channel i starting
\* at offset 37*i: every number taken from a channel lies in that channel's
\* block, an absent or empty channel has an all-zero block, and the list is
\* 14 * 37 long whether or not a wavelet transform failed.
C16_FixedChannelBlocks ==
    EegDone =>
        /\ Len(result.features) = 37 * Len(EEG_CHANNELS)
        /\ \A p \in 1..Len(result.features) :
              LET eeg_data == Val(call.eeg_data)
                  channel  == BlockChannel(p)
              IN  /\ result.features[p] # Zero => result.features[p].x = <<channel>>
                  /\ (channel \notin DOMAIN eeg_data \/ Len(eeg_data[channel]) = 0)
                        => result.features[p] = Zero

EcgDone == pc = "done" /\ call.fn = "extract_ecg_features"

\* the series of the k-th block: HRV, RR, HR
SeriesOf(c, k) ==
    CASE k = 1 -> c.hrv_values [] k = 2 -> c.rr_values [] k = 3 -> c.hr_values

\* the k-th block of 24 of a cardiac vector
Block(v, k) == SubSeq(v, 24 * (k - 1) + 1, 24 * k)

\* C17: for every combination of empty, absent or non-empty HRV, RR and HR
\* series the cardiac vector is exactly 72 long, and a series of length 0
\* or 1 has the 4 variability features of its block (positions 8..11) zero.
C17_EcgVectorLength ==
    EcgDone =>
        /\ Len(result.returned) = 72
        /\ \A k \in 1..3 :
              (~NonEmpty(SeriesOf(call, k)) \/ Len(Val(SeriesOf(call, k))) = 1)
                 => \A j \in 8..11 : Block(result.returned, k)[j + 1] = Zero

\* one sample of HRV, two of RR, no HR
C17_Witness ==
    /\ EcgDone
    /\ NonEmpty(call.hrv_values) /\ Len(Val(call.hrv_values)) = 1
    /\ NonEmpty(call.rr_values) /\ Len(Val(call.rr_values)) = 2
    /\ IsNone(call.hr_values)
    /\ Block(result.returned, 2)[9] # Zero

\* C18: the cardiac vector is three blocks of 24 in the order HRV, RR, HR,
\* each computed from its own series only: every number in a block is taken
\* from that block's series, the block of an empty or absent series is all
\* zero, and replacing one series by any other leaves the two other blocks
\* as they are.
C18_BlocksAreIndependent ==
    EcgDone =>
        /\ \A k \in 1..3 : \A j \in 1..24 :
              LET entry == Block(result.returned, k)[j]
              IN  /\ entry # Zero => entry.x = Val(SeriesOf(call, k))
                  /\ ~NonEmpty(SeriesOf(call, k)) => entry = Zero
        /\ \A s \in EcgSeries :
              /\ \A k \in {2, 3} :
                    Block(extract_ecg_features(s, call.rr_values, call.hr_values), k)
                       = Block(result.returned, k)
              /\ \A k \in {1, 3} :
                    Block(extract_ecg_features(call.hrv_values, s, call.hr_values), k)
                       = Block(result.returned, k)
              /\ \A k \in {1, 2} :
                    Block(extract_ecg_features(call.hrv_values, call.rr_values, s), k)
                       = Block(result.returned, k)

\* three different series, none of them empty
C18_Witness ==
    /\ EcgDone
    /\ \A k \in 1..3 : NonEmpty(SeriesOf(call, k))
    /\ Val(call.hrv_values) # Val(call.rr_values)
    /\ Val(call.rr_values) # Val(call.hr_values)
    /\ Block(result.returned, 3)[1] = Feature("mean", Val(call.hr_values))

ContributionsDone == pc = "done" /\ call.fn = "get_feature_contributions"

\* the sum of the values of a dict of numbers
RECURSIVE SumOfValues(_)
SumOfValues(d) ==
    IF DOMAIN d = {} THEN 0
    ELSE LET key == CHOOSE k \in DOMAIN d : TRUE
         IN  d[key] + SumOfValues([k \in DOMAIN d \ {key} |-> d[k]])

\* a modality get_feature_contributions can use: a series of two samples
\* or more, or a channel mapping that is not empty
AnyModalityUsable ==
    \/ HasSeries(call.hrv_values) \/ HasSeries(call.rr_values)
    \/ HasSeries(call.hr_values) \/ HasEeg(call.eeg_data)

\* C20: whenever at least one modality is usable, the percentage weights of
\* get_feature_contributions, each rounded to one decimal, sum to 100 within
\* 0.2 (the weights are held in tenths of a percent).
C20_WeightsSumTo100 ==
    (ContributionsDone /\ AnyModalityUsable)
        => SumOfValues(result.contributions) \in 998..1002

\* all four modalities weigh in and the rounded weights miss 100
C20_Witness ==
    /\ ContributionsDone
    /\ DOMAIN result.contributions = {"hrv", "rr", "hr", "eeg"}
    /\ SumOfValues(result.contributions) # 1000

\* the modalities of the call that have usable data: a series of at least
\* two points, a channel mapping that is not empty
UsableModalities ==
    {key \in {"hrv", "rr", "hr"} :
        LET values == CASE key = "hrv" -> call.hrv_values
                        [] key = "rr"  -> call.rr_values
                        [] key = "hr"  -> call.hr_values
        IN  ~IsNone(values) /\ Len(Val(values)) >= 2}
    \cup (IF ~IsNone(call.eeg_data) /\ DOMAIN Val(call.eeg_data) # {}
          THEN {"eeg"} ELSE {})

\* C21: the weights map of get_feature_contributions holds a modality iff
\* that modality is usable; with no usable modality the map is empty.
C21_WeightsKeysAreUsableModalities ==
    ContributionsDone => DOMAIN result.contributions = UsableModalities

\* one sample of HRV, an empty channel mapping, two samples of HR: only hr
C21_Witness ==
    /\ ContributionsDone
    /\ NonEmpty(call.hrv_values) /\ Len(Val(call.hrv_values)) = 1
    /\ call.eeg_data = Some(<<>>)
    /\ DOMAIN result.contributions = {"hr"}

\* C22: get_feature_contributions describes every present modality: the key
\* set of the descriptions equals the key set of the weights, for HRV, RR,
\* HR and EEG alike.
C22_DescriptionForEveryWeight ==
    ContributionsDone => DOMAIN result.descriptions = DOMAIN result.contributions

\* predict_stress returned the result of a strategy, not an error dict
ServedResult == Served /\ ~IsErrorResult(result)

\* C23: every result of the fusion strategy has data_sources eeg, hrv and
\* rr true and hr true exactly when an hr series was supplied; every result
\* of the eeg_only strategy has eeg true and the other three flags false.
C23_FusionAndEegFlags ==
    /\ (ServedResult /\ strategy = "fusion") =>
          result.data_sources = [eeg |-> TRUE, hrv |-> TRUE, rr |-> TRUE,
                                 hr |-> ~IsNone(call.hr_values)]
    /\ (ServedResult /\ strategy = "eeg_only") =>
          result.data_sources = [eeg |-> TRUE, hrv |-> FALSE, rr |-> FALSE,
                                 hr |-> FALSE]

\* a fusion result for a request whose hr series was supplied empty
C23_Witness ==
    /\ ServedResult
    /\ strategy = "fusion"
    /\ call.hr_values = Some(<<>>)
    /\ result.data_sources.hr

\* the input a data_sources flag stands for was supplied and is not empty
Supplied(c, key) ==
    CASE key = "eeg" -> ~IsNone(c.eeg_data) /\ DOMAIN Val(c.eeg_data) # {}
      [] key = "hrv" -> NonEmpty(c.hrv_values)
      [] key = "rr"  -> NonEmpty(c.rr_values)
      [] key = "hr"  -> NonEmpty(c.hr_values)

\* C25: in every non-error result of predict_stress, on any strategy, a
\* data_sources flag is true only if the corresponding input was supplied
\* and non-empty in that request.
C25_FlagsOnlyForSuppliedInputs ==
    ServedResult =>
        \A key \in {"eeg", "hrv", "rr", "hr"} :
            result.data_sources[key] => Supplied(call, key)

\* POST /predict has answered the waiting request
Answered == pc = "done" /\ ~IsNone(request) /\ ~IsNone(response)

\* C24: POST /predict answers 503 when the models are not loaded and 400
\* when predict_stress returns an error result, and stores no prediction in
\* either case; a prediction is stored only for a result that is no error.
C24_ErrorsAreNotPersisted ==
    Answered =>
        /\ ~Service.loaded =>
              Val(response).status = 503 /\ stress_predictions = <<>>
        /\ (Service.loaded /\ IsErrorResult(result)) =>
              Val(response).status = 400 /\ stress_predictions = <<>>
        /\ stress_predictions # <<>> =>
              /\ Service.loaded /\ ~IsErrorResult(result)
              /\ stress_predictions = <<PredictionDocument(result)>>

\* the classifier raised, predict_stress returned the error dict, 400
C24_Witness ==
    /\ Answered
    /\ classifier.raises = "predict"
    /\ IsErrorResult(result)
    /\ Val(response).status = 400
    /\ stress_predictions = <<>>

\* C26: StreakService.complete_goal updates the streak by the UTC-day
\* distance to the last completion: none before gives 1; the same day
\* leaves the streak as it is and does not celebrate; one day later adds 1;
\* more than one day later restarts at 1; and last_completion_date always
\* becomes the current time.
C26_CompleteGoalByDayDistance ==
    [][CompleteStreak =>
         LET old   == get_streak(streaks)
             last  == Get(old, "last_completion_date", None)
             count == Get(old, "streak_count", 0)
             new   == Val(streaks')
             days  == Date(now) - Date(Val(last))
         IN  /\ new["last_completion_date"] = Some(now)
             /\ result'.streak_count = new["streak_count"]
             /\ IsNone(last) => new["streak_count"] = 1
             /\ ~IsNone(last) =>
                   /\ days = 0 => (new["streak_count"] = count
                                    /\ ~result'.should_celebrate)
                   /\ days = 1 => new["streak_count"] = count + 1
                   /\ days > 1 => new["streak_count"] = 1]_vars

\* a second completion on the day of the first, later that day: the streak
\* stays at 1 and the completion time moves on
C26_Witness ==
    /\ call.fn = "complete_goal"
    /\ result.streak_count = 1
    /\ ~result.should_celebrate
    /\ Val(streaks)["last_completion_date"] = Some(1)

\* C27: from a user without a streak record, after any sequence of
\* complete_goal, reset_streak, mark_celebration_seen and
\* check_and_update_streak calls, check_and_update_streak (GET streak)
\* returns a streak count and never raises.
C27_GetStreakNeverRaises ==
    call.fn = "check_and_update_streak" =>
        /\ IsNone(exception)
        /\ result \in Nat
        /\ Val(response).status = 200

\* the stored streak numbers, an absent field or document read as 0
StreakCount == Get(get_streak(streaks), "streak_count", 0)
LongestStreak == Get(get_streak(streaks), "longest_streak", 0)

\* C30: after any sequence of complete_goal, check_and_update_streak,
\* reset_streak and mark_celebration_seen calls the stored longest_streak
\* is at least the stored streak_count, and no call makes it smaller.
C30_LongestStreakIsMonotone ==
    /\ LongestStreak >= StreakCount
    /\ [][LongestStreak' >= StreakCount' /\ LongestStreak' >= LongestStreak]_vars

\* a streak of two days was reset: the count is 0, the longest still 2
C30_Witness ==
    /\ call.fn = "reset_streak"
    /\ StreakCount = 0
    /\ LongestStreak = 2

\* every handler of POST /goals/complete has returned, none by ValueError
AllCompleted == \A p \in DOMAIN procs : procs[p].pc = "done" /\ ~procs[p].raised

\* goal_type is stored as completed in the document find_one gives for today
StoredCompleted(goal_type) ==
    LET found == FindDay(daily_goals, Date(now))
    IN  /\ ~IsNone(found)
        /\ \E i \in 1..Len(daily_goals[Val(found)].goals) :
              /\ daily_goals[Val(found)].goals[i].goal_type = goal_type
              /\ daily_goals[Val(found)].goals[i].is_completed

\* C28: when GoalsService.complete_goal calls for different goal types of
\* one user and day run concurrently, in any interleaving of their database
\* reads and writes, then after all have returned every one of those goals
\* is stored as completed.
C28_ConcurrentCompletionsAreKept ==
    AllCompleted => \A p \in DOMAIN procs : StoredCompleted(procs[p].goal_type)

\* C29: for a user whose max_per_day is an integer N, under any
\* interleaving of send_notification calls without force within one UTC
\* day, the number of notification logs created that day never exceeds N.
C29_DailyLimitIsKept ==
    LET max_per_day == get_preferences(notification_preferences).max_per_day
    IN  max_per_day # Unlimited =>
            TodayCount(notification_logs, now) <= Val(max_per_day)

====
